---- MODULE Spec2Model ----
(***************************************************************************)
(* The upload -> convert -> proof -> delete pipeline of the "Cloaked" web  *)
(* and mobile apps, as a state machine over the image_pairs table, the     *)
(* storage bucket and the requests in flight.                              *)
(*                                                                         *)
(* Every handler is an async function: one action per await that touches   *)
(* the table, the bucket or an external backend.  Code between two awaits  *)
(* runs in the same action as the await that precedes it.                  *)
(***************************************************************************)
EXTENDS Integers, Sequences, FiniteSets, Bags, TLC

\* ------------------------------------------------------------------ bounds
\* upload runs started (web upload requests that pass validation and mobile
\* handleCloak runs): each creates at most one row
MaxUploads == 1
\* requests in flight at the same time
MaxReq == 2
\* requests in flight at the same time when the responses are observed
MaxObserved == 1

\* ------------------------------------------------------------ environment
Users == {"alice", "bob"}
\* a request without a session (session?.user is undefined)
Anon == "anon"
Callers == Users \cup {Anon}

\* null (and every other falsy value of a nullable text column)
Null == << >>

Ids == 1..MaxUploads
\* the imagePairId of a convert request whose body carries none
NoId == 0

ALLOWED_TYPES == {"image/png", "image/jpeg", "image/webp"}
MAX_SIZE == 10 * 1024 * 1024

\* formData.get("file") === null
NoFile == [none |-> TRUE]
FileTypes == ALLOWED_TYPES \cup {"image/gif"}
FileSizes == {2 * 1024 * 1024, MAX_SIZE, MAX_SIZE + 1, 15 * 1024 * 1024}
Files == [type : FileTypes, size : FileSizes] \cup {NoFile}

VARIABLES
    imagePairs,   \* the image_pairs table: id -> row, for the rows that exist
    nextId,       \* the next row id the table hands out
    storage,      \* the "images" bucket: the set of paths that hold a blob
    nextFile,     \* the next fresh file identifier
    reqs,         \* the bag of requests in flight (each its position and locals)
    uploads,      \* upload runs started so far
    trigger,      \* row id -> state of the upload handler's unawaited fetch
    lastResp      \* the response sent by the last step (NoResp when it sent
                  \* none); Off when no client is observed

vars == <<imagePairs, nextId, storage, nextFile, reqs, uploads, trigger, lastResp>>

\* ------------------------------------------------------------- storage URLs
\* A URL is the sequence of its "/"-separated segments.
UrlOrigin == <<"https:", "", "project.supabase.co">>
Marker == <<"storage", "v1", "object", "public", "images">>

\* supabase getPublicUrl(path) for the images bucket
getPublicUrl(path) == UrlOrigin \o Marker \o path

\* the positions of the pathname at which the marker, followed by at least
\* one more segment, starts
MarkerAt(pathname) ==
    {i \in 1..Len(pathname) :
        /\ i + Len(Marker) <= Len(pathname)
        /\ SubSeq(pathname, i, i + Len(Marker) - 1) = Marker}

Min(S) == CHOOSE m \in S : \A n \in S : m <= n

\* What new URL(url) makes of a segment of the path: a character that a URL
\* path cannot hold is percent-encoded.  "photo.my pic" stands for every
\* segment with such a character (a space here).
PercentEncode(segment) ==
    IF segment = "photo.my pic" THEN "photo.my%20pic" ELSE segment

\* urlObj.pathname
Pathname(url) ==
    [i \in 1..(Len(url) - Len(UrlOrigin)) |-> PercentEncode(url[Len(UrlOrigin) + i])]

getPathFromUrl(url) ==
    IF Len(url) < Len(UrlOrigin) \/ SubSeq(url, 1, 2) # <<"https:", "">>
    THEN Null                                   \* new URL(url) throws
    ELSE LET pathname == Pathname(url)
         IN  IF MarkerAt(pathname) = {}
             THEN Null
             ELSE SubSeq(pathname, Min(MarkerAt(pathname)) + Len(Marker),
                         Len(pathname))

\* originalPath.replace("originals/", "protected/"): the first occurrence
ReplaceOriginals(path) ==
    LET hits == {i \in 1..(Len(path) - 1) : path[i] = "originals"}
    IN  IF hits = {} THEN path
        ELSE [path EXCEPT ![Min(hits)] = "protected"]

FileName(n) == "f" \o ToString(n)

\* ------------------------------------------------------------------- rows
NewRow(userId, originalUrl) ==
    [userId |-> userId, originalUrl |-> originalUrl, protectedUrl |-> Null,
     status |-> "pending", proofUrl |-> Null,
     proofGeneratedAt |-> Null, proofOriginalSwapUrl |-> Null,
     proofProtectedSwapUrl |-> Null, proofAnalysis |-> Null]

\* db.update(imagePairs).set(fields).where(eq(imagePairs.id, id))
UpdateWhereId(table, id, fields) ==
    IF id \in DOMAIN table
    THEN [table EXCEPT ![id] =
            [f \in DOMAIN table[id] |->
                IF f \in DOMAIN fields THEN fields[f] ELSE table[id][f]]]
    ELSE table

\* db.delete(imagePairs).where(eq(imagePairs.id, id))
DeleteWhereId(table, id) == [i \in DOMAIN table \ {id} |-> table[i]]

\* the select without its eq(imagePairs.userId, session.user.id) condition
SelectAnyOwner(table, id, userId) == {i \in DOMAIN table : i = id}

\* db.select().from(imagePairs).where(and(eq(id), eq(userId)))
SelectOwned(table, id, userId) ==
    {i \in DOMAIN table : i = id /\ table[i].userId = userId}

\* ------------------------------------------------------------- responses
Resp(op, code, body) == [op |-> op, code |-> code, body |-> body]
Err(msg) == [error |-> msg]
\* no response
NoResp == Resp("none", 0, Err(""))
\* responses are not observed
Off == Resp("off", 0, Err(""))
Record(resp) == lastResp' = IF lastResp = Off THEN Off ELSE resp

\* the requests in flight at the server: every record of reqs except the
\* upload components of the client
PollKinds == {"ImageUpload", "ImageUpload30"}
InFlight(bag) ==
    BagCardinality([q \in {r \in BagToSet(bag) : r.kind \notin PollKinds}
                        |-> bag[q]])

\* a request can be accepted while fewer than the bound are in flight
CanStart ==
    InFlight(reqs) < (IF lastResp = Off THEN MaxReq ELSE MaxObserved)

\* a step that sends no response
Silent == Record(NoResp)
Start(req) == reqs' = reqs (+) SetToBag({req}) /\ Silent
With(q, fields) ==
    [f \in DOMAIN q |-> IF f \in DOMAIN fields THEN fields[f] ELSE q[f]]
\* the request q goes on as the record r
Become(q, r) == reqs' = (reqs (-) SetToBag({q})) (+) SetToBag({r}) /\ Silent
Goto(q, fields) == Become(q, With(q, fields))
\* the last step of a request: its response
Finish(q, resp) == reqs' = reqs (-) SetToBag({q}) /\ Record(resp)
\* a request answered by its first step
Reply(resp) == Record(resp) /\ UNCHANGED reqs
Running(kind, pc) == {q \in BagToSet(reqs) : q.kind = kind /\ q.pc = pc}

Init ==
    /\ imagePairs = << >>
    /\ nextId = 1
    /\ storage = {}
    /\ nextFile = 1
    /\ reqs = EmptyBag
    /\ uploads = 0
    /\ trigger = << >>
    /\ lastResp = Off

\* one client at a time, whose responses are recorded
InitObs ==
    /\ imagePairs = << >>
    /\ nextId = 1
    /\ storage = {}
    /\ nextFile = 1
    /\ reqs = EmptyBag
    /\ uploads = 0
    /\ trigger = << >>
    /\ lastResp = NoResp

\* ------------------------------------------------------- storage adapter
\* uploadImage(file, path, contentType): upsert is false, so a path that
\* holds a blob is an error, as is a fault of the storage service
uploadImage(bucket, path, fault) ==
    IF fault \/ path \in bucket
    THEN [error |-> "upload", bucket |-> bucket, url |-> Null]
    ELSE [error |-> "", bucket |-> bucket \cup {path}, url |-> getPublicUrl(path)]

\* downloadImage(path)
downloadImage(bucket, path, fault) ==
    IF fault \/ path \notin bucket THEN [error |-> "download"] ELSE [error |-> ""]

\* deleteImage(path): its callers ignore the result
deleteImage(bucket, path, fault) == IF fault THEN bucket ELSE bucket \ {path}

\* ---------------------------------------- uploadFile (web upload widget)
\* the checks of uploadFile before it posts the file: the message it shows,
\* or none when the file is posted
uploadFile(file) ==
    IF file.type \notin {"image/png", "image/jpeg", "image/webp"}
    THEN "Invalid file type. Please upload PNG, JPEG, or WEBP."
    ELSE IF file.size > 10 * 1024 * 1024
    THEN "File too large. Maximum size is 10MB."
    ELSE ""

\* --------------------------------------------------- upload route (web)
\* the validation without its ALLOWED_TYPES.includes(file.type) check
UploadValidateAnyType(caller, file) ==
    IF caller = Anon THEN Resp("upload", 401, Err("Unauthorized"))
    ELSE IF file = NoFile THEN Resp("upload", 400, Err("No file provided"))
    ELSE IF file.size > MAX_SIZE
         THEN Resp("upload", 400, Err("File too large. Maximum size: 10MB"))
    ELSE Resp("upload", 0, Err("ok"))

\* the validation with file.size >= MAX_SIZE for file.size > MAX_SIZE
UploadValidateInclusive(caller, file) ==
    IF caller = Anon THEN Resp("upload", 401, Err("Unauthorized"))
    ELSE IF file = NoFile THEN Resp("upload", 400, Err("No file provided"))
    ELSE IF file.type \notin ALLOWED_TYPES
         THEN Resp("upload", 400, Err("Invalid file type. Allowed: PNG, JPEG, WEBP"))
    ELSE IF file.size >= MAX_SIZE
         THEN Resp("upload", 400, Err("File too large. Maximum size: 10MB"))
    ELSE Resp("upload", 0, Err("ok"))

\* the validation of POST /api/images/upload: the error response, or "ok"
UploadValidate(caller, file) ==
    IF caller = Anon THEN Resp("upload", 401, Err("Unauthorized"))
    ELSE IF file = NoFile THEN Resp("upload", 400, Err("No file provided"))
    ELSE IF file.type \notin ALLOWED_TYPES
         THEN Resp("upload", 400, Err("Invalid file type. Allowed: PNG, JPEG, WEBP"))
    ELSE IF file.size > MAX_SIZE
         THEN Resp("upload", 400, Err("File too large. Maximum size: 10MB"))
    ELSE Resp("upload", 0, Err("ok"))

\* session check, form parsing, validation, file id generation
UploadBegin(caller, file) ==
    LET v == UploadValidate(caller, file) IN
    IF v.code # 0
    THEN /\ Reply(v)
         /\ UNCHANGED <<imagePairs, nextId, storage, nextFile, uploads, trigger>>
    ELSE /\ CanStart
         /\ uploads < MaxUploads
         /\ uploads' = uploads + 1
         /\ Start([kind |-> "upload", pc |-> "store", userId |-> caller,
                   file |-> file,
                   path |-> <<"originals", caller, FileName(nextFile)>>,
                   url |-> Null])
         /\ nextFile' = nextFile + 1
         /\ UNCHANGED <<imagePairs, nextId, storage, trigger>>

\* the storage step without its if (!uploadResult.success) return
UploadStoreIgnoreError(q, fault) ==
    LET res == uploadImage(storage, q.path, fault) IN
    /\ q \in Running("upload", "store")
    /\ storage' = res.bucket
    /\ Become(q, [kind |-> "upload", pc |-> "insert",
                  userId |-> q.userId, url |-> res.url])
    /\ UNCHANGED <<imagePairs, nextId, nextFile, uploads, trigger>>

\* const uploadResult = await uploadImage(buffer, storagePath, file.type)
UploadStore(q, fault) ==
    LET res == uploadImage(storage, q.path, fault) IN
    /\ q \in Running("upload", "store")
    /\ storage' = res.bucket
    /\ IF res.error # ""
       THEN Finish(q, Resp("upload", 500, Err("Upload failed")))
       ELSE Become(q, [kind |-> "upload", pc |-> "insert",
                       userId |-> q.userId, url |-> res.url])
    /\ UNCHANGED <<imagePairs, nextId, nextFile, uploads, trigger>>

\* db.insert(imagePairs).values({userId, originalUrl, status: "pending"}),
\* then the unawaited fetch of the convert endpoint and the response
UploadInsert(q, dbFault) ==
    /\ q \in Running("upload", "insert")
    /\ IF dbFault
       THEN /\ Finish(q, Resp("upload", 500, Err("Internal server error")))
            /\ UNCHANGED <<imagePairs, nextId, trigger>>
       ELSE /\ imagePairs' = imagePairs @@ (nextId :> NewRow(q.userId, q.url))
            /\ nextId' = nextId + 1
            /\ trigger' = trigger @@ (nextId :> "inflight")
            /\ Finish(q, Resp("upload", 200,
                    [id |-> nextId, originalUrl |-> q.url, status |-> "pending"]))
    /\ UNCHANGED <<storage, nextFile, uploads>>

\* -------------------------------------------------- convert route (web)
\* POST /api/images/convert up to its select: no session is looked up
ConvertStart(imagePairId, trig, dbFault) ==
    IF imagePairId = NoId
    THEN Reply(Resp("convert", 400, Err("imagePairId is required")))
    ELSE IF dbFault
    THEN Reply(Resp("convert", 500, Err("Internal server error")))
    ELSE IF imagePairId \notin DOMAIN imagePairs
    THEN Reply(Resp("convert", 404, Err("Image pair not found")))
    ELSE /\ CanStart
         /\ Start([kind |-> "convert", pc |-> "setProcessing",
                   id |-> imagePairId, trig |-> trig,
                   originalUrl |-> imagePairs[imagePairId].originalUrl,
                   url |-> Null, err |-> ""])

\* the convert endpoint called by anyone who knows (or guesses) an id
ConvertBegin(imagePairId, dbFault) ==
    /\ ConvertStart(imagePairId, FALSE, dbFault)
    /\ UNCHANGED <<imagePairs, nextId, storage, nextFile, uploads, trigger>>

\* the response of a convert request settles the upload handler's fetch
Settle(q, early) ==
    IF q.trig /\ trigger[q.id] = "delivered"
    THEN trigger' = [trigger EXCEPT ![q.id] =
                        IF early THEN "resolvedEarly" ELSE "resolved"]
    ELSE UNCHANGED trigger

\* the outer catch of the convert route
ConvertCatch(q) == Finish(q, Resp("convert", 500, Err("Internal server error")))

\* the first update made only while the row is still pending
ConvertSetProcessingIfPending(q, dbFault) ==
    /\ q \in Running("convert", "setProcessing")
    /\ IF dbFault
       THEN /\ ConvertCatch(q)
            /\ Settle(q, TRUE)
            /\ UNCHANGED imagePairs
       ELSE /\ imagePairs' =
                IF q.id \in DOMAIN imagePairs /\ imagePairs[q.id].status = "pending"
                THEN UpdateWhereId(imagePairs, q.id, [status |-> "processing"])
                ELSE imagePairs
            /\ IF getPathFromUrl(q.originalUrl) = Null
               THEN Goto(q, [pc |-> "fail", err |-> "Could not parse original URL"])
               ELSE Goto(q, [pc |-> "download"])
            /\ UNCHANGED trigger
    /\ UNCHANGED <<nextId, storage, nextFile, uploads>>

\* db.update(imagePairs).set({status: "processing"}), then getPathFromUrl
ConvertSetProcessing(q, dbFault) ==
    /\ q \in Running("convert", "setProcessing")
    /\ IF dbFault
       THEN /\ ConvertCatch(q)
            /\ Settle(q, TRUE)
            /\ UNCHANGED imagePairs
       ELSE /\ imagePairs' = UpdateWhereId(imagePairs, q.id, [status |-> "processing"])
            /\ IF getPathFromUrl(q.originalUrl) = Null
               THEN Goto(q, [pc |-> "fail", err |-> "Could not parse original URL"])
               ELSE Goto(q, [pc |-> "download"])
            /\ UNCHANGED trigger
    /\ UNCHANGED <<nextId, storage, nextFile, uploads>>

\* db.update(imagePairs).set({status: "failed"}) and the 500 response
ConvertFail(q, dbFault) ==
    /\ q \in Running("convert", "fail")
    /\ Settle(q, FALSE)
    /\ IF dbFault
       THEN /\ ConvertCatch(q)
            /\ UNCHANGED imagePairs
       ELSE /\ imagePairs' = UpdateWhereId(imagePairs, q.id, [status |-> "failed"])
            /\ Finish(q, Resp("convert", 500, Err(q.err)))
    /\ UNCHANGED <<nextId, storage, nextFile, uploads>>

\* const downloadResult = await downloadImage(originalPath)
ConvertDownload(q, fault) ==
    /\ q \in Running("convert", "download")
    /\ IF downloadImage(storage, getPathFromUrl(q.originalUrl), fault).error # ""
       THEN Goto(q, [pc |-> "fail", err |-> "Download failed"])
       ELSE Goto(q, [pc |-> "cloak"])
    /\ UNCHANGED <<imagePairs, nextId, storage, nextFile, uploads, trigger>>

\* what the cloak backend can answer: a 2xx with a well-formed body, a
\* non-2xx, no answer at all (fetch throws), a 2xx whose body is malformed
BackendOutcomes == {"ok", "non2xx", "throws", "malformed"}

\* the fetch of BACKEND_URL/cloak/base64 and the decoding of its body
ConvertCloak(q, outcome) ==
    /\ q \in Running("convert", "cloak")
    /\ IF outcome = "ok"
       THEN /\ Goto(q, [pc |-> "upload"])
            /\ UNCHANGED trigger
       ELSE IF outcome = "non2xx"
       THEN /\ Goto(q, [pc |-> "fail", err |-> "Cloaking failed"])
            /\ UNCHANGED trigger
       ELSE \* fetch, json() or Buffer.from throws
            /\ ConvertCatch(q)
            /\ Settle(q, FALSE)
    /\ UNCHANGED <<imagePairs, nextId, storage, nextFile, uploads>>

\* uploadImage(cloakedBuffer, protectedPath, "image/png")
ConvertUpload(q, fault) ==
    LET protectedPath == ReplaceOriginals(getPathFromUrl(q.originalUrl))
        res == uploadImage(storage, protectedPath, fault) IN
    /\ q \in Running("convert", "upload")
    /\ storage' = res.bucket
    /\ IF res.error # ""
       THEN Goto(q, [pc |-> "fail", err |-> "Upload failed"])
       ELSE Goto(q, [pc |-> "complete", url |-> res.url])
    /\ UNCHANGED <<imagePairs, nextId, nextFile, uploads, trigger>>

\* the final update with set({status: "completed"}) only
ConvertCompleteStatusOnly(q, dbFault) ==
    /\ q \in Running("convert", "complete")
    /\ Settle(q, FALSE)
    /\ IF dbFault
       THEN /\ ConvertCatch(q)
            /\ UNCHANGED imagePairs
       ELSE /\ imagePairs' = UpdateWhereId(imagePairs, q.id, [status |-> "completed"])
            /\ IF q.id \in DOMAIN imagePairs
               THEN Finish(q, Resp("convert", 200,
                        [id |-> q.id, protectedUrl |-> q.url, status |-> "completed"]))
               ELSE ConvertCatch(q)
    /\ UNCHANGED <<nextId, storage, nextFile, uploads>>

\* db.update(imagePairs).set({protectedUrl, status: "completed"}).returning()
ConvertComplete(q, dbFault) ==
    /\ q \in Running("convert", "complete")
    /\ Settle(q, FALSE)
    /\ IF dbFault
       THEN /\ ConvertCatch(q)
            /\ UNCHANGED imagePairs
       ELSE /\ imagePairs' = UpdateWhereId(imagePairs, q.id,
                    [protectedUrl |-> q.url, status |-> "completed"])
            /\ IF q.id \in DOMAIN imagePairs
               THEN Finish(q, Resp("convert", 200,
                        [id |-> q.id, protectedUrl |-> q.url, status |-> "completed"]))
               ELSE \* updatedPair is undefined: updatedPair.id throws
                    ConvertCatch(q)
    /\ UNCHANGED <<nextId, storage, nextFile, uploads>>

\* ------------------------------------- the upload handler's unawaited fetch
\* the request reaches the convert endpoint, which runs up to its select
TriggerDeliver(id, dbFault) ==
    /\ id \in DOMAIN trigger /\ trigger[id] = "inflight"
    /\ ConvertStart(id, TRUE, dbFault)
    /\ trigger' = [trigger EXCEPT ![id] =
                      IF dbFault \/ id \notin DOMAIN imagePairs
                      THEN "resolvedEarly" ELSE "delivered"]
    /\ UNCHANGED <<imagePairs, nextId, storage, nextFile, uploads>>

\* fetch rejects: the request could not be sent, or the connection was lost
\* before a response came back
TriggerReject(id) ==
    /\ id \in DOMAIN trigger /\ trigger[id] \in {"inflight", "delivered"}
    /\ trigger' = [trigger EXCEPT ![id] = "rejected"]
    /\ Silent
    /\ UNCHANGED <<imagePairs, nextId, storage, nextFile, reqs, uploads>>

\* .catch(async (err) => { await db.update(...).set({status: "failed"}) })
TriggerCatch(id, dbFault) ==
    /\ id \in DOMAIN trigger /\ trigger[id] = "rejected"
    /\ trigger' = [trigger EXCEPT ![id] = "caught"]
    /\ imagePairs' = IF dbFault THEN imagePairs
                     ELSE UpdateWhereId(imagePairs, id, [status |-> "failed"])
    /\ Silent
    /\ UNCHANGED <<nextId, storage, nextFile, reqs, uploads>>

\* ------------------------------------------------ GET /api/images/[id]
\* getImagePairById(id, userId) of the web store: the row (as a one-element
\* sequence), or null
getImagePairById(table, id, userId) ==
    IF SelectOwned(table, id, userId) = {} THEN Null ELSE <<table[id]>>

\* what GET answers the caller when the table is as given
GetResponse(table, caller, id) ==
    IF caller = Anon THEN Resp("get", 401, Err("Unauthorized"))
    ELSE IF SelectOwned(table, id, caller) = {}
         THEN Resp("get", 404, Err("Image pair not found"))
         ELSE Resp("get", 200, table[id])

Get(caller, id) ==
    /\ Reply(GetResponse(imagePairs, caller, id))
    /\ UNCHANGED <<imagePairs, nextId, storage, nextFile, uploads, trigger>>

\* --------------------------------------------- DELETE /api/images/[id]
\* session check and the select scoped to the caller
DeleteBegin(caller, id) ==
    /\ IF caller = Anon
       THEN Reply(Resp("delete", 401, Err("Unauthorized")))
       ELSE IF SelectOwned(imagePairs, id, caller) = {}
       THEN Reply(Resp("delete", 404, Err("Image pair not found")))
       ELSE /\ CanStart
            /\ Start([kind |-> "delete", pc |-> "original", id |-> id,
                      userId |-> caller,
                      originalUrl |-> imagePairs[id].originalUrl,
                      protectedUrl |-> imagePairs[id].protectedUrl])
    /\ UNCHANGED <<imagePairs, nextId, storage, nextFile, uploads, trigger>>

\* if (originalPath) await deleteImage(originalPath)
DeleteOriginal(q, fault) ==
    /\ q \in Running("delete", "original")
    /\ storage' = IF getPathFromUrl(q.originalUrl) = Null THEN storage
                  ELSE deleteImage(storage, getPathFromUrl(q.originalUrl), fault)
    /\ Goto(q, [pc |-> IF q.protectedUrl # Null /\ getPathFromUrl(q.protectedUrl) # Null
                       THEN "protected" ELSE "row"])
    /\ UNCHANGED <<imagePairs, nextId, nextFile, uploads, trigger>>

\* if (imagePair.protectedUrl) ... await deleteImage(protectedPath)
DeleteProtected(q, fault) ==
    /\ q \in Running("delete", "protected")
    /\ storage' = deleteImage(storage, getPathFromUrl(q.protectedUrl), fault)
    /\ Goto(q, [pc |-> "row"])
    /\ UNCHANGED <<imagePairs, nextId, nextFile, uploads, trigger>>

\* db.delete(imagePairs).where(eq(imagePairs.id, id)) and {success: true}
DeleteRow(q, dbFault) ==
    /\ q \in Running("delete", "row")
    /\ IF dbFault
       THEN /\ Finish(q, Resp("delete", 500, Err("Internal server error")))
            /\ UNCHANGED imagePairs
       ELSE /\ imagePairs' = DeleteWhereId(imagePairs, q.id)
            /\ Finish(q, Resp("delete", 200, [success |-> TRUE]))
    /\ UNCHANGED <<nextId, storage, nextFile, uploads, trigger>>

\* ------------------------------------------ POST /api/images/[id]/proof
\* all four proof fields are populated
ProofCached(row) ==
    /\ row.proofGeneratedAt # Null
    /\ row.proofOriginalSwapUrl # Null
    /\ row.proofProtectedSwapUrl # Null
    /\ row.proofAnalysis # Null

\* the body of a cache hit
CachedBody(row) ==
    [cached |-> TRUE, originalSwapUrl |-> row.proofOriginalSwapUrl,
     protectedSwapUrl |-> row.proofProtectedSwapUrl,
     analysis |-> row.proofAnalysis, generatedAt |-> row.proofGeneratedAt]

\* proofs/${session.user.id}/${id}_original_swap.png and .._protected_swap.png
SwapPath(userId, id, which) ==
    <<"proofs", userId, ToString(id) \o "_" \o which \o "_swap.png">>

\* the first step of the proof route without its cache check
ProofBeginNoCache(caller, id, dbFault) ==
    /\ IF caller = Anon
       THEN Reply(Resp("proof", 401, Err("Unauthorized")))
       ELSE IF dbFault
       THEN Reply(Resp("proof", 500, Err("Internal server error")))
       ELSE IF SelectOwned(imagePairs, id, caller) = {}
       THEN Reply(Resp("proof", 404, Err("Image pair not found")))
       ELSE IF imagePairs[id].protectedUrl = Null
       THEN Reply(Resp("proof", 400, Err("Image not yet protected")))
       ELSE IF getPathFromUrl(imagePairs[id].originalUrl) = Null
               \/ getPathFromUrl(imagePairs[id].protectedUrl) = Null
       THEN Reply(Resp("proof", 500, Err("Could not resolve image paths")))
       ELSE /\ CanStart
            /\ Start([kind |-> "proof", pc |-> "download", id |-> id,
                      userId |-> caller,
                      originalUrl |-> imagePairs[id].originalUrl,
                      protectedUrl |-> imagePairs[id].protectedUrl])
    /\ UNCHANGED <<imagePairs, nextId, storage, nextFile, uploads, trigger>>

\* session check, the select scoped to the caller, the cache check and the
\* resolution of the two storage paths
ProofBegin(caller, id, dbFault) ==
    /\ IF caller = Anon
       THEN Reply(Resp("proof", 401, Err("Unauthorized")))
       ELSE IF dbFault
       THEN Reply(Resp("proof", 500, Err("Internal server error")))
       ELSE IF SelectOwned(imagePairs, id, caller) = {}
       THEN Reply(Resp("proof", 404, Err("Image pair not found")))
       ELSE IF imagePairs[id].protectedUrl = Null
       THEN Reply(Resp("proof", 400, Err("Image not yet protected")))
       ELSE IF ProofCached(imagePairs[id])
       THEN Reply(Resp("proof", 200, CachedBody(imagePairs[id])))
       ELSE IF getPathFromUrl(imagePairs[id].originalUrl) = Null
               \/ getPathFromUrl(imagePairs[id].protectedUrl) = Null
       THEN Reply(Resp("proof", 500, Err("Could not resolve image paths")))
       ELSE /\ CanStart
            /\ Start([kind |-> "proof", pc |-> "download", id |-> id,
                      userId |-> caller,
                      originalUrl |-> imagePairs[id].originalUrl,
                      protectedUrl |-> imagePairs[id].protectedUrl])
    /\ UNCHANGED <<imagePairs, nextId, storage, nextFile, uploads, trigger>>

\* Promise.all([downloadImage(originalPath), downloadImage(protectedPath)])
ProofDownload(q, faultOriginal, faultProtected) ==
    LET originalResult ==
            downloadImage(storage, getPathFromUrl(q.originalUrl), faultOriginal)
        protectedResult ==
            downloadImage(storage, getPathFromUrl(q.protectedUrl), faultProtected)
    IN
    /\ q \in Running("proof", "download")
    /\ IF originalResult.error # "" \/ protectedResult.error # ""
       THEN Finish(q, Resp("proof", 500, Err("Failed to download images")))
       ELSE Goto(q, [pc |-> "prove"])
    /\ UNCHANGED <<imagePairs, nextId, storage, nextFile, uploads, trigger>>

\* the prove step without its if (!proofResponse.ok) return
ProofProveIgnoreStatus(q, outcome) ==
    /\ q \in Running("proof", "prove")
    /\ IF outcome \in {"ok", "non2xx"}
       THEN Goto(q, [pc |-> "upload"])
       ELSE Finish(q, Resp("proof", 500, Err("Internal server error")))
    /\ UNCHANGED <<imagePairs, nextId, storage, nextFile, uploads, trigger>>

\* the fetch of BACKEND_URL/prove/v2 (30 s timeout), the decoding of its
\* body and analyzeWithGemini, which always returns an analysis
ProofProve(q, outcome) ==
    /\ q \in Running("proof", "prove")
    /\ IF outcome = "ok"
       THEN Goto(q, [pc |-> "upload"])
       ELSE IF outcome = "non2xx"
       THEN Finish(q, Resp("proof", 500, Err("Proof generation failed")))
       ELSE Finish(q, Resp("proof", 500, Err("Internal server error")))
    /\ UNCHANGED <<imagePairs, nextId, storage, nextFile, uploads, trigger>>

\* the upload step without its check of the two upload results
ProofUploadIgnoreError(q, faultOriginal, faultProtected) ==
    LET originalUpload ==
            uploadImage(storage, SwapPath(q.userId, q.id, "original"), faultOriginal)
        protectedUpload ==
            uploadImage(originalUpload.bucket,
                        SwapPath(q.userId, q.id, "protected"), faultProtected)
    IN
    /\ q \in Running("proof", "upload")
    /\ storage' = protectedUpload.bucket
    /\ Goto(q, [pc |-> "persist"])
    /\ UNCHANGED <<imagePairs, nextId, nextFile, uploads, trigger>>

\* Promise.all([uploadImage(originalSwap..), uploadImage(protectedSwap..)]):
\* both uploads run whatever the other does
ProofUpload(q, faultOriginal, faultProtected) ==
    LET originalUpload ==
            uploadImage(storage, SwapPath(q.userId, q.id, "original"), faultOriginal)
        protectedUpload ==
            uploadImage(originalUpload.bucket,
                        SwapPath(q.userId, q.id, "protected"), faultProtected)
    IN
    /\ q \in Running("proof", "upload")
    /\ storage' = protectedUpload.bucket
    /\ IF originalUpload.error # "" \/ protectedUpload.error # ""
       THEN Finish(q, Resp("proof", 200,
                [cached |-> FALSE, originalSwapBase64 |-> "original_swap",
                 protectedSwapBase64 |-> "protected_swap",
                 analysis |-> <<"analysis">>, storageFailed |-> TRUE]))
       ELSE Goto(q, [pc |-> "persist"])
    /\ UNCHANGED <<imagePairs, nextId, nextFile, uploads, trigger>>

\* a caching update that also sets protectedUrl to the protected swap image
ProofPersistOverProtected(q, dbFault) ==
    LET originalSwapUrl == getPublicUrl(SwapPath(q.userId, q.id, "original"))
        protectedSwapUrl == getPublicUrl(SwapPath(q.userId, q.id, "protected"))
    IN
    /\ q \in Running("proof", "persist")
    /\ IF dbFault
       THEN /\ Finish(q, Resp("proof", 500, Err("Internal server error")))
            /\ UNCHANGED imagePairs
       ELSE /\ imagePairs' = UpdateWhereId(imagePairs, q.id,
                    [protectedUrl |-> protectedSwapUrl,
                     proofGeneratedAt |-> <<"now">>,
                     proofOriginalSwapUrl |-> originalSwapUrl,
                     proofProtectedSwapUrl |-> protectedSwapUrl,
                     proofAnalysis |-> <<"analysis">>])
            /\ Finish(q, Resp("proof", 200,
                    [cached |-> FALSE, originalSwapUrl |-> originalSwapUrl,
                     protectedSwapUrl |-> protectedSwapUrl,
                     analysis |-> <<"analysis">>, generatedAt |-> <<"now">>]))
    /\ UNCHANGED <<nextId, storage, nextFile, uploads, trigger>>

\* the caching update without its proofAnalysis field
ProofPersistNoAnalysis(q, dbFault) ==
    LET originalSwapUrl == getPublicUrl(SwapPath(q.userId, q.id, "original"))
        protectedSwapUrl == getPublicUrl(SwapPath(q.userId, q.id, "protected"))
    IN
    /\ q \in Running("proof", "persist")
    /\ IF dbFault
       THEN /\ Finish(q, Resp("proof", 500, Err("Internal server error")))
            /\ UNCHANGED imagePairs
       ELSE /\ imagePairs' = UpdateWhereId(imagePairs, q.id,
                    [proofGeneratedAt |-> <<"now">>,
                     proofOriginalSwapUrl |-> originalSwapUrl,
                     proofProtectedSwapUrl |-> protectedSwapUrl])
            /\ Finish(q, Resp("proof", 200,
                    [cached |-> FALSE, originalSwapUrl |-> originalSwapUrl,
                     protectedSwapUrl |-> protectedSwapUrl,
                     analysis |-> <<"analysis">>, generatedAt |-> <<"now">>]))
    /\ UNCHANGED <<nextId, storage, nextFile, uploads, trigger>>

\* db.update(imagePairs).set({the four proof fields}).where(eq(id))
ProofPersist(q, dbFault) ==
    LET originalSwapUrl == getPublicUrl(SwapPath(q.userId, q.id, "original"))
        protectedSwapUrl == getPublicUrl(SwapPath(q.userId, q.id, "protected"))
    IN
    /\ q \in Running("proof", "persist")
    /\ IF dbFault
       THEN /\ Finish(q, Resp("proof", 500, Err("Internal server error")))
            /\ UNCHANGED imagePairs
       ELSE /\ imagePairs' = UpdateWhereId(imagePairs, q.id,
                    [proofGeneratedAt |-> <<"now">>,
                     proofOriginalSwapUrl |-> originalSwapUrl,
                     proofProtectedSwapUrl |-> protectedSwapUrl,
                     proofAnalysis |-> <<"analysis">>])
            /\ Finish(q, Resp("proof", 200,
                    [cached |-> FALSE, originalSwapUrl |-> originalSwapUrl,
                     protectedSwapUrl |-> protectedSwapUrl,
                     analysis |-> <<"analysis">>, generatedAt |-> <<"now">>]))
    /\ UNCHANGED <<nextId, storage, nextFile, uploads, trigger>>

\* what GET /api/images/[id]/proof answers the caller
ProofGetResponse(table, caller, id) ==
    IF caller = Anon
    THEN Resp("proofGet", 401, Err("Unauthorized"))
    ELSE IF SelectOwned(table, id, caller) = {}
    THEN Resp("proofGet", 404, Err("Image pair not found"))
    ELSE IF ProofCached(table[id])
    THEN Resp("proofGet", 200,
                [exists |-> TRUE,
                 originalSwapUrl |-> table[id].proofOriginalSwapUrl,
                 protectedSwapUrl |-> table[id].proofProtectedSwapUrl,
                 analysis |-> table[id].proofAnalysis,
                 generatedAt |-> table[id].proofGeneratedAt])
    ELSE Resp("proofGet", 200, [exists |-> FALSE])

\* GET /api/images/[id]/proof
ProofGet(caller, id) ==
    /\ Reply(ProofGetResponse(imagePairs, caller, id))
    /\ UNCHANGED <<imagePairs, nextId, storage, nextFile, uploads, trigger>>

\* --------------- POST /api/images/[id]/proof/original and proof/protected
\* the swap of one image only: the row is selected for the caller, the blob
\* downloaded and sent to the prove backend; nothing is stored
ProofOnlyResponse(op, table, bucket, caller, id, url, what, fault, outcome) ==
    IF caller = Anon THEN Resp(op, 401, Err("Unauthorized"))
    ELSE IF SelectOwned(table, id, caller) = {}
    THEN Resp(op, 404, Err("Image pair not found"))
    ELSE IF getPathFromUrl(url) = Null
    THEN Resp(op, 500, Err("Could not resolve " \o what \o " image path"))
    ELSE IF downloadImage(bucket, getPathFromUrl(url), fault).error # ""
    THEN Resp(op, 500, Err("Failed to download " \o what \o " image"))
    ELSE IF outcome = "non2xx"
    THEN Resp(op, 500, Err(IF what = "original"
                           THEN "Original proof generation failed"
                           ELSE "Protected proof generation failed"))
    ELSE IF outcome # "ok"
    THEN Resp(op, 500, Err("Internal server error"))
    ELSE Resp(op, 200, [status |-> "success", swap |-> what])

\* no request is in flight at the server
Idle == InFlight(reqs) = 0

\* POST proof/original, sent while no other request is in flight
ProofOriginal(caller, id, fault, outcome) ==
    /\ Idle
    /\ Reply(ProofOnlyResponse("proofOriginal", imagePairs, storage, caller, id,
                IF id \in DOMAIN imagePairs THEN imagePairs[id].originalUrl ELSE Null,
                "original", fault, outcome))
    /\ UNCHANGED <<imagePairs, nextId, storage, nextFile, uploads, trigger>>

\* proofPath = imagePair.proofUrl ? getPathFromUrl(imagePair.proofUrl)
\*                                : getPathFromUrl(imagePair.protectedUrl)
ProofProtected(caller, id, fault, outcome) ==
    /\ Idle
    /\ Reply(ProofOnlyResponse("proofProtected", imagePairs, storage, caller, id,
                IF id \notin DOMAIN imagePairs THEN Null
                ELSE IF imagePairs[id].proofUrl # Null THEN imagePairs[id].proofUrl
                ELSE imagePairs[id].protectedUrl,
                "protected", fault, outcome))
    /\ UNCHANGED <<imagePairs, nextId, storage, nextFile, uploads, trigger>>

\* ----------------------------------------- handleCloak (mobile client)
\* updateImagePairStatus(id, status, protectedUrl?) of the mobile client: an
\* error of the table is logged and null is returned
updateImagePairStatus(table, id, status, protectedUrl, dbFault) ==
    IF dbFault THEN table
    ELSE IF protectedUrl # Null
    THEN UpdateWhereId(table, id, [status |-> status, protectedUrl |-> protectedUrl])
    ELSE UpdateWhereId(table, id, [status |-> status])

\* the run ends (setIsScanning(false)); nothing is sent to anyone
End(q) == reqs' = reqs (-) SetToBag({q}) /\ Silent

\* handleCloak with an image selected, by a signed-in user or by nobody
MobileBegin(userId) ==
    /\ CanStart
    /\ uploads < MaxUploads
    /\ uploads' = uploads + 1
    /\ IF userId = Anon
       THEN /\ Start([kind |-> "mobile", pc |-> "cloak", userId |-> userId,
                      id |-> NoId, path |-> Null, url |-> Null])
            /\ UNCHANGED nextFile
       ELSE /\ Start([kind |-> "mobile", pc |-> "uploadOriginal", userId |-> userId,
                      id |-> NoId,
                      path |-> <<"originals", userId, FileName(nextFile)>>,
                      url |-> Null])
            /\ nextFile' = nextFile + 1
    /\ UNCHANGED <<imagePairs, nextId, storage, trigger>>

\* uploadImageToStorage(selectedImageBase64, originalPath, "image/png")
MobileUploadOriginal(q, fault) ==
    LET res == uploadImage(storage, q.path, fault) IN
    /\ q \in Running("mobile", "uploadOriginal")
    /\ storage' = res.bucket
    /\ IF res.error # ""
       THEN Goto(q, [pc |-> "cloak"])
       ELSE Goto(q, [pc |-> "create", url |-> res.url])
    /\ UNCHANGED <<imagePairs, nextId, nextFile, uploads, trigger>>

\* createImagePair(userId, uploadResult.url): the row, or null on an error
MobileCreate(q, dbFault) ==
    /\ q \in Running("mobile", "create")
    /\ IF dbFault
       THEN /\ Goto(q, [pc |-> "cloak"])
            /\ UNCHANGED <<imagePairs, nextId>>
       ELSE /\ imagePairs' = imagePairs @@ (nextId :> NewRow(q.userId, q.url))
            /\ nextId' = nextId + 1
            /\ Goto(q, [pc |-> "setProcessing", id |-> nextId])
    /\ UNCHANGED <<storage, nextFile, uploads, trigger>>

\* await updateImagePairStatus(imagePairId, "processing")
MobileSetProcessing(q, dbFault) ==
    /\ q \in Running("mobile", "setProcessing")
    /\ imagePairs' = updateImagePairStatus(imagePairs, q.id, "processing", Null, dbFault)
    /\ Goto(q, [pc |-> "cloak"])
    /\ UNCHANGED <<nextId, storage, nextFile, uploads, trigger>>

\* the fetch of BACKEND_URL/cloak/base64; a non-2xx and every exception
\* end in the catch block
MobileCloak(q, outcome) ==
    /\ q \in Running("mobile", "cloak")
    /\ IF outcome = "ok"
       THEN IF q.userId # Anon /\ q.id # NoId
            THEN /\ Goto(q, [pc |-> "uploadProtected",
                             path |-> <<"protected", q.userId, FileName(nextFile)>>])
                 /\ nextFile' = nextFile + 1
            ELSE End(q) /\ UNCHANGED nextFile
       ELSE /\ IF q.id # NoId THEN Goto(q, [pc |-> "fail"]) ELSE End(q)
            /\ UNCHANGED nextFile
    /\ UNCHANGED <<imagePairs, nextId, storage, uploads, trigger>>

\* uploadImageToStorage(data.cloaked_image, protectedPath, "image/png")
MobileUploadProtected(q, fault) ==
    LET res == uploadImage(storage, q.path, fault) IN
    /\ q \in Running("mobile", "uploadProtected")
    /\ storage' = res.bucket
    /\ IF res.error # ""
       THEN Goto(q, [pc |-> "fail"])
       ELSE Goto(q, [pc |-> "complete", url |-> res.url])
    /\ UNCHANGED <<imagePairs, nextId, nextFile, uploads, trigger>>

\* await updateImagePairStatus(imagePairId, "completed", protectedUpload.url)
MobileComplete(q, dbFault) ==
    /\ q \in Running("mobile", "complete")
    /\ imagePairs' = updateImagePairStatus(imagePairs, q.id, "completed", q.url, dbFault)
    /\ End(q)
    /\ UNCHANGED <<nextId, storage, nextFile, uploads, trigger>>

\* await updateImagePairStatus(imagePairId, "failed"), after a failed upload
\* of the protected image and in the catch block
MobileFail(q, dbFault) ==
    /\ q \in Running("mobile", "fail")
    /\ imagePairs' = updateImagePairStatus(imagePairs, q.id, "failed", Null, dbFault)
    /\ End(q)
    /\ UNCHANGED <<nextId, storage, nextFile, uploads, trigger>>

\* ----------------------------------------------------------- the system
Next ==
    \/ \E c \in Callers, f \in Files : UploadBegin(c, f)
    \/ \E q \in BagToSet(reqs), fault \in BOOLEAN : UploadStore(q, fault)
    \/ \E q \in BagToSet(reqs), fault \in BOOLEAN : UploadInsert(q, fault)
    \/ \E id \in Ids \cup {NoId}, fault \in BOOLEAN : ConvertBegin(id, fault)
    \/ \E q \in BagToSet(reqs), fault \in BOOLEAN : ConvertSetProcessing(q, fault)
    \/ \E q \in BagToSet(reqs), fault \in BOOLEAN : ConvertDownload(q, fault)
    \/ \E q \in BagToSet(reqs), o \in BackendOutcomes : ConvertCloak(q, o)
    \/ \E q \in BagToSet(reqs), fault \in BOOLEAN : ConvertUpload(q, fault)
    \/ \E q \in BagToSet(reqs), fault \in BOOLEAN : ConvertComplete(q, fault)
    \/ \E q \in BagToSet(reqs), fault \in BOOLEAN : ConvertFail(q, fault)
    \/ \E id \in Ids, fault \in BOOLEAN : TriggerDeliver(id, fault)
    \/ \E id \in Ids : TriggerReject(id)
    \/ \E id \in Ids, fault \in BOOLEAN : TriggerCatch(id, fault)
    \/ \E c \in Callers, id \in Ids : Get(c, id)
    \/ \E c \in Callers, id \in Ids : DeleteBegin(c, id)
    \/ \E q \in BagToSet(reqs), fault \in BOOLEAN : DeleteOriginal(q, fault)
    \/ \E q \in BagToSet(reqs), fault \in BOOLEAN : DeleteProtected(q, fault)
    \/ \E q \in BagToSet(reqs), fault \in BOOLEAN : DeleteRow(q, fault)
    \/ \E c \in Callers, id \in Ids, fault \in BOOLEAN : ProofBegin(c, id, fault)
    \/ \E q \in BagToSet(reqs), fo, fp \in BOOLEAN : ProofDownload(q, fo, fp)
    \/ \E q \in BagToSet(reqs), o \in BackendOutcomes : ProofProve(q, o)
    \/ \E q \in BagToSet(reqs), fo, fp \in BOOLEAN : ProofUpload(q, fo, fp)
    \/ \E q \in BagToSet(reqs), fault \in BOOLEAN : ProofPersist(q, fault)
    \/ \E c \in Callers, id \in Ids : ProofGet(c, id)
    \/ \E c \in Callers, id \in Ids, fault \in BOOLEAN, o \in BackendOutcomes :
            ProofOriginal(c, id, fault, o)
    \/ \E c \in Callers, id \in Ids, fault \in BOOLEAN, o \in BackendOutcomes :
            ProofProtected(c, id, fault, o)
    \/ \E u \in Callers : MobileBegin(u)
    \/ \E q \in BagToSet(reqs), fault \in BOOLEAN : MobileUploadOriginal(q, fault)
    \/ \E q \in BagToSet(reqs), fault \in BOOLEAN : MobileCreate(q, fault)
    \/ \E q \in BagToSet(reqs), fault \in BOOLEAN : MobileSetProcessing(q, fault)
    \/ \E q \in BagToSet(reqs), o \in BackendOutcomes : MobileCloak(q, o)
    \/ \E q \in BagToSet(reqs), fault \in BOOLEAN : MobileUploadProtected(q, fault)
    \/ \E q \in BagToSet(reqs), fault \in BOOLEAN : MobileComplete(q, fault)
    \/ \E q \in BagToSet(reqs), fault \in BOOLEAN : MobileFail(q, fault)

Spec == Init /\ [][Next]_vars
SpecObs == InitObs /\ [][Next]_vars

\* ------------------------------------------------- the store, on its own
\* The functions of the web store and of the mobile client's store, applied
\* to a table drawn from the tables below.
\* rows of the tables the store functions are applied to
MaxStoreRows == 2
StoreIds == 1..MaxStoreRows
Statuses == {"pending", "processing", "completed", "failed"}
StoreRow(userId, status) ==
    [NewRow(userId, getPublicUrl(<<"originals", userId, FileName(1)>>))
        EXCEPT !.status = status,
               !.protectedUrl =
                    IF status = "completed"
                    THEN getPublicUrl(<<"protected", userId, FileName(1)>>)
                    ELSE Null]
StoreRows == {StoreRow(u, s) : u \in Users, s \in Statuses}
StoreTables == UNION {[S -> StoreRows] : S \in SUBSET StoreIds}

\* deleteImagePair(id) of a store that reports failure when no row matched
deleteImagePairStrict(table, id, dbFault) ==
    IF dbFault THEN [table |-> table, result |-> "throws"]
    ELSE [table |-> DeleteWhereId(table, id),
          result |-> IF id \in DOMAIN table THEN "true" ELSE "false"]

\* deleteImagePair(id) of the web store: the table after the call and what
\* the call returns; an error of the database is thrown
deleteImagePair(table, id, dbFault) ==
    IF dbFault THEN [table |-> table, result |-> "throws"]
    ELSE [table |-> DeleteWhereId(table, id), result |-> "true"]

\* deleteImagePair(id) of the mobile client: an error of the database is
\* logged and false is returned
deleteImagePairMobile(table, id, dbFault) ==
    IF dbFault THEN [table |-> table, result |-> "false"]
    ELSE [table |-> DeleteWhereId(table, id), result |-> "true"]

\* what a caller of a store function sees: the function, its argument, what
\* it returned, and whether a row matched when it was called
StoreResult(fn, id, result) ==
    Resp(fn, 0, [id |-> id, result |-> result, matched |-> id \in DOMAIN imagePairs])

InitStore ==
    /\ imagePairs \in StoreTables
    /\ nextId = MaxStoreRows + 1
    /\ storage = {}
    /\ nextFile = 1
    /\ reqs = EmptyBag
    /\ uploads = 0
    /\ trigger = << >>
    /\ lastResp = NoResp

StoreDelete(id, dbFault) ==
    LET r == deleteImagePair(imagePairs, id, dbFault) IN
    /\ imagePairs' = r.table
    /\ lastResp' = StoreResult("deleteImagePair", id, r.result)
    /\ UNCHANGED <<nextId, storage, nextFile, reqs, uploads, trigger>>

StoreDeleteMobile(id, dbFault) ==
    LET r == deleteImagePairMobile(imagePairs, id, dbFault) IN
    /\ imagePairs' = r.table
    /\ lastResp' = StoreResult("deleteImagePairMobile", id, r.result)
    /\ UNCHANGED <<nextId, storage, nextFile, reqs, uploads, trigger>>

NextStore ==
    \/ \E id \in StoreIds, fault \in BOOLEAN : StoreDelete(id, fault)
    \/ \E id \in StoreIds, fault \in BOOLEAN : StoreDeleteMobile(id, fault)

SpecStore == InitStore /\ [][NextStore]_vars

\* ------------------------------------------------- the client's poller
\* The ImageUpload component after its upload was answered: uploadFile calls
\* setImagePair(data) and pollForCompletion(data.id).  The component is a
\* record of the bag reqs: kind "ImageUpload" is
\* web/components/image-upload.tsx, kind "ImageUpload30" the variant whose
\* poller makes 30 attempts.
maxAttempts == 60
maxAttempts30 == 30
TimeoutMessage ==
    "Conversion is taking longer than expected. Please refresh and check your image history."
ConversionFailedMessage == "Image conversion failed. Please try again."
StatusCheckMessage == "Failed to check conversion status. Please refresh the page."
PollId == 1
PollOwner == "alice"
\* how a status request of the poller may end: the route answers the owner,
\* the route answers a request whose session is gone, or fetch rejects
FetchOutcomes == {"answered", "expired", "rejects"}
Rejected == Resp("get", 0, Err("fetch rejected"))
FetchResponse(table, id, outcome) ==
    IF outcome = "rejects" THEN Rejected
    ELSE GetResponse(table, IF outcome = "answered" THEN PollOwner ELSE Anon, id)
\* response.ok
ResponseOk(resp) == resp.code \in 200..299
\* data.status of the parsed body (undefined on an error body)
DataStatus(resp) ==
    IF "status" \in DOMAIN resp.body THEN resp.body.status ELSE "undefined"
IsTerminal(status) == status \in {"completed", "failed"}

\* the body of the upload response the component was given
UploadData ==
    [id |-> PollId, originalUrl |-> StoreRow(PollOwner, "pending").originalUrl,
     status |-> "pending"]

\* the component when pollForCompletion(id) is called: attempts = 0, and in
\* image-upload.tsx pollingRef.current.active = true.  nonTerminal, terminal
\* and failedFetch count what the status requests have returned so far.
Component(kind, data) ==
    [kind |-> kind, pc |-> "timer", id |-> data.id, attempts |-> 0,
     active |-> TRUE, mounted |-> TRUE, error |-> "",
     imagePair |-> <<data>>,
     onUploadComplete |-> 0,
     nonTerminal |-> 0, terminal |-> Null, failedFetch |-> FALSE]

\* poll() up to its fetch: if (!active) return; attempts++; fetch(...)
poll(q) ==
    IF ~q.active THEN With(q, [pc |-> "stopped"])
    ELSE With(q, [pc |-> "fetch", attempts |-> q.attempts + 1])

\* a catch block that schedules the next attempt
pollCatchRetry(q) ==
    With(q, [pc |-> "timer", error |-> StatusCheckMessage])
\* the catch block of poll
pollCatch(q) ==
    With(q, [pc |-> "stopped", error |-> StatusCheckMessage, active |-> FALSE])

\* setImagePair(prev => prev ? {...prev, status: "failed"} : null)
SynthesizeFailed(imagePair) ==
    IF imagePair = Null THEN Null
    ELSE <<[imagePair[1] EXCEPT !.status = "failed"]>>

\* poll() from the response on with only "failed" taken as terminal
pollResponseFailedOnly(q, resp) ==
    IF ~ResponseOk(resp) THEN pollCatch(q)
    ELSE IF DataStatus(resp) = "failed"
    THEN With(q, [pc |-> "stopped",
                  imagePair |-> <<resp.body>>,
                  error |-> ConversionFailedMessage,
                  active |-> FALSE])
    ELSE IF q.attempts < maxAttempts /\ q.active
    THEN With(q, [pc |-> "timer"])
    ELSE IF q.attempts >= maxAttempts
    THEN With(q, [pc |-> "stopped", error |-> TimeoutMessage,
                  imagePair |-> SynthesizeFailed(q.imagePair),
                  active |-> FALSE])
    ELSE With(q, [pc |-> "stopped"])

\* poll() from the response of its fetch on
pollResponse(q, resp) ==
    IF ~ResponseOk(resp) THEN pollCatch(q)
    ELSE IF IsTerminal(DataStatus(resp))
    THEN With(q, [pc |-> "stopped",
                  imagePair |-> <<resp.body>>,
                  onUploadComplete |-> q.onUploadComplete +
                        (IF DataStatus(resp) = "completed" THEN 1 ELSE 0),
                  error |-> IF DataStatus(resp) = "failed"
                            THEN ConversionFailedMessage ELSE q.error,
                  active |-> FALSE])
    ELSE IF q.attempts < maxAttempts /\ q.active
    THEN With(q, [pc |-> "timer"])
    ELSE IF q.attempts >= maxAttempts
    THEN With(q, [pc |-> "stopped", error |-> TimeoutMessage,
                  imagePair |-> SynthesizeFailed(q.imagePair),
                  active |-> FALSE])
    ELSE With(q, [pc |-> "stopped"])

\* poll() of the 30-attempt variant up to its fetch: attempts++; fetch(...)
poll30(q) == With(q, [pc |-> "fetch", attempts |-> q.attempts + 1])

\* poll() of the 30-attempt variant from the response on: the body is parsed
\* whatever the status code; the catch block only logs
poll30Response(q, resp) ==
    IF resp.code = 0 THEN With(q, [pc |-> "stopped"])
    ELSE IF IsTerminal(DataStatus(resp))
    THEN With(q, [pc |-> "stopped",
                  imagePair |-> <<resp.body>>,
                  onUploadComplete |-> q.onUploadComplete +
                        (IF DataStatus(resp) = "completed" THEN 1 ELSE 0)])
    ELSE IF q.attempts < maxAttempts30
    THEN With(q, [pc |-> "timer"])
    ELSE With(q, [pc |-> "stopped"])

\* what the status requests have returned so far
Counted(q, resp) ==
    [nonTerminal |-> q.nonTerminal +
        (IF ResponseOk(resp) /\ ~IsTerminal(DataStatus(resp)) THEN 1 ELSE 0),
     terminal |-> IF ResponseOk(resp) /\ IsTerminal(DataStatus(resp))
                  THEN <<DataStatus(resp)>> ELSE q.terminal,
     failedFetch |-> q.failedFetch \/ ~ResponseOk(resp)]

InitPoll ==
    /\ imagePairs = (PollId :> StoreRow(PollOwner, "pending"))
    /\ nextId = PollId + 1
    /\ storage = {}
    /\ nextFile = 1
    /\ reqs = EmptyBag
    /\ uploads = 0
    /\ trigger = << >>
    /\ lastResp = NoResp

\* pollForCompletion(id): the first poll() runs in the call itself
PollForCompletion(kind) ==
    /\ reqs = EmptyBag
    /\ Start(IF kind = "ImageUpload" THEN poll(Component(kind, UploadData))
             ELSE poll30(Component(kind, UploadData)))
    /\ UNCHANGED <<imagePairs, nextId, storage, nextFile, uploads, trigger>>

\* the timer set by setTimeout(poll, 1000) fires
PollTimer(q) ==
    /\ q \in Running("ImageUpload", "timer")
    /\ Become(q, poll(q))
    /\ UNCHANGED <<imagePairs, nextId, storage, nextFile, uploads, trigger>>

\* the state of the component that every poller started in it reads and
\* writes: pollingRef.current, error, imagePair (and the calls of
\* onUploadComplete)
Shared == {"active", "mounted", "error", "imagePair", "onUploadComplete"}
\* the bag after the poller q has become r: the other pollers of the
\* component see the shared state r has written
Rerendered(q, r) ==
    LET others == {o \in BagToSet(reqs) \ {q} : o.kind = "ImageUpload"} IN
    ((reqs (-) SetToBag({q})) (-) SetToBag(others))
        (+) SetToBag({r})
        (+) SetToBag({With(o, [f \in Shared |-> r[f]]) : o \in others})

\* the status request of poll() ends
PollResponse(q, outcome) ==
    /\ q \in Running("ImageUpload", "fetch")
    /\ LET resp == FetchResponse(imagePairs, q.id, outcome) IN
        /\ reqs' = Rerendered(q, With(pollResponse(q, resp), Counted(q, resp)))
        /\ Record(resp)
    /\ UNCHANGED <<imagePairs, nextId, storage, nextFile, uploads, trigger>>

\* a cleanup that clears the timer and leaves pollingRef.current.active set
UnmountClearOnly(q) ==
    /\ q \in BagToSet(reqs)
    /\ q.kind = "ImageUpload"
    /\ q.mounted
    /\ Become(q, With(q, [mounted |-> FALSE,
                          pc |-> IF q.pc = "timer" THEN "stopped" ELSE q.pc]))
    /\ UNCHANGED <<imagePairs, nextId, storage, nextFile, uploads, trigger>>

\* the cleanup of the component's effect: active = false, clearTimeout
Unmount(q) ==
    /\ q \in BagToSet(reqs)
    /\ q.kind = "ImageUpload"
    /\ q.mounted
    /\ Become(q, With(q, [mounted |-> FALSE, active |-> FALSE,
                          pc |-> IF q.pc = "timer" THEN "stopped" ELSE q.pc]))
    /\ UNCHANGED <<imagePairs, nextId, storage, nextFile, uploads, trigger>>

Poll30Timer(q) ==
    /\ q \in Running("ImageUpload30", "timer")
    /\ Become(q, poll30(q))
    /\ UNCHANGED <<imagePairs, nextId, storage, nextFile, uploads, trigger>>

Poll30Response(q, outcome) ==
    /\ q \in Running("ImageUpload30", "fetch")
    /\ LET resp == FetchResponse(imagePairs, q.id, outcome) IN
        /\ reqs' = (reqs (-) SetToBag({q}))
                    (+) SetToBag({With(poll30Response(q, resp), Counted(q, resp))})
        /\ Record(resp)
    /\ UNCHANGED <<imagePairs, nextId, storage, nextFile, uploads, trigger>>

\* the server writes the row's status meanwhile (the convert route)
ServerWrites(id, status) ==
    /\ id \in DOMAIN imagePairs
    /\ imagePairs[id].status # status
    /\ imagePairs' = UpdateWhereId(imagePairs, id, [status |-> status])
    /\ Silent
    /\ UNCHANGED <<nextId, storage, nextFile, reqs, uploads, trigger>>

\* the row is deleted meanwhile (the DELETE route)
ServerDeletes ==
    /\ PollId \in DOMAIN imagePairs
    /\ imagePairs' = DeleteWhereId(imagePairs, PollId)
    /\ Silent
    /\ UNCHANGED <<nextId, storage, nextFile, reqs, uploads, trigger>>

NextPoll ==
    \/ \E kind \in PollKinds : PollForCompletion(kind)
    \/ \E q \in BagToSet(reqs) : PollTimer(q)
    \/ \E q \in BagToSet(reqs), o \in FetchOutcomes : PollResponse(q, o)
    \/ \E q \in BagToSet(reqs) : Unmount(q)
    \/ \E q \in BagToSet(reqs) : Poll30Timer(q)
    \/ \E q \in BagToSet(reqs), o \in FetchOutcomes : Poll30Response(q, o)
    \/ \E s \in Statuses : ServerWrites(PollId, s)
    \/ ServerDeletes

SpecPoll == InitPoll /\ [][NextPoll]_vars

\* --------------------------------------- two uploads in one component
\* A second file is dropped on the component while the poller of the first
\* upload is running: uploadFile is called again, and pollForCompletion
\* starts a second poller on the same pollingRef.  Status requests are
\* answered, and each job reaches a terminal status at some time.
PollJobs == {1, 2}
JobRow(id) ==
    NewRow(PollOwner, getPublicUrl(<<"originals", PollOwner, FileName(id)>>))
JobData(id) ==
    [id |-> id, originalUrl |-> JobRow(id).originalUrl, status |-> "pending"]
PollerOf(id) == {q \in BagToSet(reqs) : q.kind = "ImageUpload" /\ q.id = id}

InitPoll2 ==
    /\ imagePairs = [id \in PollJobs |-> JobRow(id)]
    /\ nextId = 3
    /\ storage = {}
    /\ nextFile = 3
    /\ reqs = EmptyBag
    /\ uploads = 0
    /\ trigger = << >>
    /\ lastResp = NoResp

\* uploadFile for the job id, answered: setError(null), setImagePair(data),
\* and pollForCompletion(data.id) sets pollingRef.current.active = true and
\* runs its first poll()
UploadFileAnswered(id) ==
    /\ PollerOf(id) = {}
    /\ \A j \in PollJobs : j < id => PollerOf(j) # {}
    /\ LET fresh == poll(Component("ImageUpload", JobData(id)))
           shown == IF reqs = EmptyBag THEN fresh
                    ELSE LET c == CHOOSE o \in BagToSet(reqs) : TRUE IN
                         With(fresh, [mounted |-> c.mounted,
                                      onUploadComplete |-> c.onUploadComplete])
       IN  reqs' = SetToBag({shown}
                        \cup {With(o, [f \in Shared |-> shown[f]]) :
                                o \in BagToSet(reqs)})
    /\ Silent
    /\ UNCHANGED <<imagePairs, nextId, storage, nextFile, uploads, trigger>>

\* the conversion of the job ends
JobEnds(id, status) ==
    /\ imagePairs[id].status = "pending"
    /\ IsTerminal(status)
    /\ ServerWrites(id, status)

NextPoll2 ==
    \/ \E id \in PollJobs : UploadFileAnswered(id)
    \/ \E q \in BagToSet(reqs) : PollTimer(q)
    \/ \E q \in BagToSet(reqs) : PollResponse(q, "answered")
    \/ \E id \in PollJobs, s \in Statuses : JobEnds(id, s)

SpecPoll2 == InitPoll2 /\ [][NextPoll2]_vars

\* ------------------------------------------- one upload, nothing failing
\* A valid file is uploaded by a signed-in user, every collaborator succeeds
\* (storage, database, the cloak backend, the unawaited fetch of the convert
\* endpoint, the status requests), and the component polls the job.
FlowFiles == {f \in Files \ {NoFile} : f.type \in ALLOWED_TYPES /\ f.size <= MAX_SIZE}

\* the body the upload route answered for the row id (upload route 100-104)
UploadBody(id) ==
    [id |-> id, originalUrl |-> imagePairs[id].originalUrl, status |-> "pending"]

\* uploadFile after its fetch: setImagePair(data); pollForCompletion(data.id)
UploadAnswered(id) ==
    /\ id \in DOMAIN trigger
    /\ id \in DOMAIN imagePairs
    /\ \A q \in BagToSet(reqs) : q.kind \notin PollKinds
    /\ Start(poll(Component("ImageUpload", UploadBody(id))))
    /\ UNCHANGED <<imagePairs, nextId, storage, nextFile, uploads, trigger>>

FlowServer ==
    \/ \E f \in FlowFiles : UploadBegin(PollOwner, f)
    \/ \E q \in BagToSet(reqs) : UploadStore(q, FALSE)
    \/ \E q \in BagToSet(reqs) : UploadInsert(q, FALSE)
    \/ \E id \in DOMAIN trigger : TriggerDeliver(id, FALSE)
    \/ \E q \in BagToSet(reqs) : ConvertSetProcessing(q, FALSE)
    \/ \E q \in BagToSet(reqs) : ConvertDownload(q, FALSE)
    \/ \E q \in BagToSet(reqs) : ConvertCloak(q, "ok")
    \/ \E q \in BagToSet(reqs) : ConvertUpload(q, FALSE)
    \/ \E q \in BagToSet(reqs) : ConvertComplete(q, FALSE)

FlowClient ==
    \/ \E id \in DOMAIN trigger : UploadAnswered(id)
    \/ \E q \in BagToSet(reqs) : PollTimer(q)
    \/ \E q \in BagToSet(reqs) : PollResponse(q, "answered")

NextFlow == FlowServer \/ FlowClient

\* the handlers run on, the requests are delivered and the timers fire
SpecFlow ==
    InitObs /\ [][NextFlow]_vars /\ WF_vars(FlowServer) /\ WF_vars(FlowClient)

\* ------------------------------------------- the URL convention alone
\* getPathFromUrl applied to the URLs of stored paths and to other strings.
\* The bucket holds one blob, at a path drawn from UrlPaths.
MaxPathLen == 3
PathSegments == {"originals", "alice", "f1.png", "photo.my pic", "images"}
ShortPaths == UNION {[1..n -> PathSegments] : n \in 1..MaxPathLen}
\* the paths: short ones, and paths that hold the marker sequence
UrlPaths ==
    ShortPaths
        \cup {Marker \o p : p \in [1..1 -> PathSegments]}
        \cup {p \o Marker : p \in [1..1 -> PathSegments]}
        \cup {<<p>> \o Marker \o <<r>> : p, r \in PathSegments}
\* strings given to getPathFromUrl that are no URL of the convention: not a
\* URL at all, or a URL without the marker
OtherStrings ==
    ShortPaths \cup {UrlOrigin \o p : p \in ShortPaths} \cup {UrlOrigin, Null}
ContainsMarker(path) ==
    \E i \in 1..Len(path) :
        /\ i + Len(Marker) - 1 <= Len(path)
        /\ SubSeq(path, i, i + Len(Marker) - 1) = Marker

InitUrl ==
    /\ imagePairs = << >>
    /\ nextId = 1
    /\ storage \in {{p} : p \in UrlPaths}
    /\ nextFile = 1
    /\ reqs = EmptyBag
    /\ uploads = 0
    /\ trigger = << >>
    /\ lastResp = NoResp

\* getPathFromUrl(getPublicUrl(path)) for the stored path
UrlRoundTrip(path) ==
    /\ path \in storage
    /\ lastResp' = Resp("roundTrip", 0,
            [path |-> path, result |-> getPathFromUrl(getPublicUrl(path))])
    /\ UNCHANGED <<imagePairs, nextId, storage, nextFile, reqs, uploads, trigger>>

\* getPathFromUrl(string)
UrlParse(string) ==
    /\ lastResp.op # "getPathFromUrl"
    /\ lastResp' = Resp("getPathFromUrl", 0,
            [url |-> string, result |-> getPathFromUrl(string)])
    /\ UNCHANGED <<imagePairs, nextId, storage, nextFile, reqs, uploads, trigger>>

NextUrl ==
    \/ \E p \in UrlPaths : UrlRoundTrip(p)
    \/ \E u \in OtherStrings : UrlParse(u)

SpecUrl == InitUrl /\ [][NextUrl]_vars

\* -------------------------------- conversion requested again, no fault
\* The flow of one upload, and the convert endpoint called again for a row
\* that is completed, with every collaborator succeeding.
Reconvert(id) ==
    /\ id \in DOMAIN imagePairs
    /\ imagePairs[id].status = "completed"
    /\ ConvertBegin(id, FALSE)

NextAgain ==
    \/ NextFlow
    \/ \E id \in Ids : Reconvert(id)
    \/ \E q \in BagToSet(reqs) : ConvertFail(q, FALSE)

SpecAgain == InitObs /\ [][NextAgain]_vars

\* ------------------------------------ conversion requested twice at once
\* The flow of one upload, and the convert endpoint called a second time for
\* the row before its conversion has completed (a double submit); nothing
\* fails.  Two requests are in flight at the server.
DoubleSubmit(id) ==
    /\ id \in DOMAIN imagePairs
    /\ imagePairs[id].status # "completed"
    /\ ConvertBegin(id, FALSE)

NextTwice ==
    \/ NextFlow
    \/ \E id \in Ids : DoubleSubmit(id)
    \/ \E q \in BagToSet(reqs) : ConvertFail(q, FALSE)

SpecTwice == Init /\ [][NextTwice]_vars

\* ------------------------------------------------- the proof modal (web)
\* ProtectionProofModal opened for an image of a table drawn from
\* StoreTables.  The modal is a record of the bag reqs; original and
\* protected are the states of its two swap requests.
ModalUser == "alice"
\* the blobs of the rows of a table
BlobsOf(table) ==
    UNION {{getPathFromUrl(table[id].originalUrl)}
                \cup (IF table[id].protectedUrl = Null THEN {}
                      ELSE {getPathFromUrl(table[id].protectedUrl)}) :
           id \in DOMAIN table}

InitModal ==
    /\ imagePairs \in StoreTables
    /\ nextId = MaxStoreRows + 1
    /\ storage = BlobsOf(imagePairs)
    /\ nextFile = 1
    /\ reqs = EmptyBag
    /\ uploads = 0
    /\ trigger = << >>
    /\ lastResp = NoResp

\* the effect runs fetchProof: setLoading(true), setError(null), and the
\* GET of the cached proof is sent
ModalOpen(imageId) ==
    /\ reqs = EmptyBag
    /\ Start([kind |-> "ProofModal", pc |-> "check", imageId |-> imageId,
              loading |-> TRUE, error |-> "", proofData |-> Null,
              original |-> "none", protected |-> "none"])
    /\ UNCHANGED <<imagePairs, nextId, storage, nextFile, uploads, trigger>>

\* fetchProof from the answer of GET proof on: checkData.exists is read
\* whatever the status code; on a miss both swap requests are sent
ModalCheck(q, outcome) ==
    /\ q \in Running("ProofModal", "check")
    /\ LET resp == ProofGetResponse(imagePairs,
                        IF outcome = "answered" THEN ModalUser ELSE Anon,
                        q.imageId)
       IN  IF outcome = "rejects"
           THEN Become(q, With(q, [pc |-> "error", loading |-> FALSE,
                                   error |-> "Failed to load proof"]))
           ELSE IF "exists" \in DOMAIN resp.body /\ resp.body.exists
           THEN Become(q, With(q, [pc |-> "shown", loading |-> FALSE,
                    proofData |-> <<[cached |-> TRUE, originalReady |-> TRUE,
                                     protectedReady |-> TRUE]>>]))
           ELSE Become(q, With(q, [pc |-> "shown", loading |-> FALSE,
                    proofData |-> <<[cached |-> FALSE, originalReady |-> FALSE,
                                     protectedReady |-> FALSE]>>,
                    original |-> "inflight", protected |-> "inflight"]))
    /\ UNCHANGED <<imagePairs, nextId, storage, nextFile, uploads, trigger>>

\* the answer of a swap request as the modal's promise sees it: res.ok
SwapSettles(resp, outcome) ==
    IF outcome # "rejects" /\ ResponseOk(resp) THEN "fulfilled" ELSE "rejected"

\* setProofData(prev => prev ? {...prev, ...fields} : prev)
SetProofData(q, fields) ==
    IF q.proofData = Null THEN q.proofData ELSE <<With(q.proofData[1], fields)>>

\* originalPromise settles: .then sets originalReady, .catch only logs
ModalOriginalSettles(q, outcome, fault, backend) ==
    /\ q \in BagToSet(reqs)
    /\ q.kind = "ProofModal" /\ q.original = "inflight"
    /\ LET resp == ProofOnlyResponse("proofOriginal", imagePairs, storage,
                        IF outcome = "answered" THEN ModalUser ELSE Anon,
                        q.imageId,
                        IF q.imageId \in DOMAIN imagePairs
                        THEN imagePairs[q.imageId].originalUrl ELSE Null,
                        "original", fault, backend)
           settled == SwapSettles(resp, outcome)
       IN  Become(q, With(q, [original |-> settled,
                    proofData |-> IF settled = "fulfilled"
                                  THEN SetProofData(q, [originalReady |-> TRUE])
                                  ELSE q.proofData]))
    /\ UNCHANGED <<imagePairs, nextId, storage, nextFile, uploads, trigger>>

\* protectedPromise settles: .then and .catch both set protectedReady
ModalProtectedSettles(q, outcome, fault, backend) ==
    /\ q \in BagToSet(reqs)
    /\ q.kind = "ProofModal" /\ q.protected = "inflight"
    /\ LET resp == ProofOnlyResponse("proofProtected", imagePairs, storage,
                        IF outcome = "answered" THEN ModalUser ELSE Anon,
                        q.imageId,
                        IF q.imageId \notin DOMAIN imagePairs THEN Null
                        ELSE IF imagePairs[q.imageId].proofUrl # Null
                        THEN imagePairs[q.imageId].proofUrl
                        ELSE imagePairs[q.imageId].protectedUrl,
                        "protected", fault, backend)
           settled == SwapSettles(resp, outcome)
       IN  Become(q, With(q, [protected |-> settled,
                    proofData |-> SetProofData(q, [protectedReady |-> TRUE])]))
    /\ UNCHANGED <<imagePairs, nextId, storage, nextFile, uploads, trigger>>

NextModal ==
    \/ \E id \in StoreIds : ModalOpen(id)
    \/ \E q \in BagToSet(reqs), o \in FetchOutcomes : ModalCheck(q, o)
    \/ \E q \in BagToSet(reqs), o \in FetchOutcomes, fault \in BOOLEAN,
            b \in BackendOutcomes : ModalOriginalSettles(q, o, fault, b)
    \/ \E q \in BagToSet(reqs), o \in FetchOutcomes, fault \in BOOLEAN,
            b \in BackendOutcomes : ModalProtectedSettles(q, o, fault, b)

SpecModal == InitModal /\ [][NextModal]_vars

\* --------------------------------------- a row deleted while it converts
\* The flow of one upload, and DELETE /api/images/{id} by the owner at any
\* time after the row exists; storage, database and the cloak backend answer
\* normally.  Two requests are in flight at the server.
NextGone ==
    \/ NextFlow
    \/ \E id \in Ids : DeleteBegin(PollOwner, id)
    \/ \E q \in BagToSet(reqs) : DeleteOriginal(q, FALSE)
    \/ \E q \in BagToSet(reqs) : DeleteProtected(q, FALSE)
    \/ \E q \in BagToSet(reqs) : DeleteRow(q, FALSE)
    \/ \E q \in BagToSet(reqs) : ConvertFail(q, FALSE)

SpecGone == Init /\ [][NextGone]_vars

\* ------------------------------------------------------------ properties
Rows == DOMAIN imagePairs
\* the requests that take a step: their record leaves the bag
Acting == {q \in BagToSet(reqs) : CopiesIn(q, reqs') < CopiesIn(q, reqs)}
\* the requests that end with this step
Ending == {q \in Acting : BagCardinality(reqs') < BagCardinality(reqs)}
\* the row is written or deleted by this step
Touched(id) == id \notin DOMAIN imagePairs' \/ imagePairs'[id] # imagePairs[id]

\* C1: in every reachable state a row whose status is completed has a
\* non-null protectedUrl.
CompletedHasProtectedUrl ==
    \A id \in Rows :
        imagePairs[id].status = "completed" => imagePairs[id].protectedUrl # Null

\* C1: a completed row for which a proof has been generated and cached
CompletedWithProof ==
    \E id \in Rows :
        /\ imagePairs[id].status = "completed"
        /\ imagePairs[id].protectedUrl # Null
        /\ ProofCached(imagePairs[id])

\* C2: in every reachable state a row's protectedUrl is non-null only if
\* its status is completed.
ProtectedUrlOnlyWhenCompleted ==
    \A id \in Rows :
        imagePairs[id].protectedUrl # Null => imagePairs[id].status = "completed"

\* the status changes a row may go through
StatusTransitions ==
    {<<"pending", "processing">>, <<"processing", "completed">>,
     <<"pending", "failed">>, <<"processing", "failed">>, <<"completed", "failed">>}
\* C3: every status change of a row is pending -> processing,
\* processing -> completed or X -> failed, and a failed row keeps its status.
StatusMonotone ==
    [][\A id \in Rows \cap DOMAIN imagePairs' :
          \/ imagePairs'[id].status = imagePairs[id].status
          \/ <<imagePairs[id].status, imagePairs'[id].status>> \in StatusTransitions]_vars

\* C4: when a convert request that has set its row to processing returns,
\* the row (if it still exists) is completed or failed.
ConvertNeverLeavesProcessing ==
    [][\A q \in Ending :
          (q.kind = "convert" /\ q.pc # "setProcessing" /\ q.id \in DOMAIN imagePairs')
              => imagePairs'[q.id].status \in {"completed", "failed"}]_vars

\* C5: once the upload handler's trigger has ended without a conversion run
\* starting (the fetch was rejected and its handler has run, or the convert
\* endpoint answered before setting processing), the row is not pending.
TriggerFailureFailsRow ==
    \A id \in DOMAIN trigger \cap Rows :
        trigger[id] \in {"caught", "resolvedEarly"}
            => imagePairs[id].status # "pending"

\* files at the size limit and one byte over it
AtLimit(t) == [type |-> t, size |-> 10 * 1024 * 1024]
OverLimit(t) == [type |-> t, size |-> 10 * 1024 * 1024 + 1]
TooLarge == Resp("upload", 400, Err("File too large. Maximum size: 10MB"))
\* the file fails the type or the size check
InvalidFile(f) == f.type \notin ALLOWED_TYPES \/ f.size > MAX_SIZE
\* C6: an upload of a file whose type is not allowed or whose size exceeds
\* MAX_SIZE fails the validation with a 400, no such file reaches the storage
\* step, and the step that answers an upload with a 400 writes no blob,
\* creates no row, triggers no conversion and starts no request.
InvalidUploadRejected ==
    /\ [](\A c \in Users, f \in Files \ {NoFile} :
            InvalidFile(f) => UploadValidate(c, f).code = 400)
    /\ [](\A q \in Running("upload", "store") : ~InvalidFile(q.file))
    /\ [][(lastResp'.op = "upload" /\ lastResp'.code = 400)
            => UNCHANGED <<imagePairs, storage, trigger, reqs, nextId>>]_vars

\* C6: an upload was just rejected for its type, with no row and no blob
InvalidTypeRejected ==
    /\ lastResp = Resp("upload", 400, Err("Invalid file type. Allowed: PNG, JPEG, WEBP"))
    /\ imagePairs = << >> /\ storage = {}

\* C7: a file of exactly 10*1024*1024 bytes and an allowed type passes the
\* validation (of the widget and of the endpoint) and its upload goes on to
\* the storage step; a file of one byte more fails it with a 400, never
\* reaches the storage step and creates no row.
SizeBoundaryExact ==
    /\ [](\A c \in Users, t \in ALLOWED_TYPES :
            /\ uploadFile(AtLimit(t)) = "" /\ uploadFile(OverLimit(t)) # ""
            /\ UploadValidate(c, AtLimit(t)).code = 0
            /\ UploadValidate(c, OverLimit(t)) = TooLarge)
    /\ [](\A q \in Running("upload", "store") : q.file.size <= 10 * 1024 * 1024)
    /\ [][lastResp' = TooLarge
            => UNCHANGED <<imagePairs, storage, trigger, reqs, nextId>>]_vars
    /\ [][uploads' # uploads
            => \A c \in Users, t \in ALLOWED_TYPES :
                  UploadBegin(c, AtLimit(t))
                      => \E q \in Running("upload", "store")' :
                            q.file = AtLimit(t) /\ q \notin BagToSet(reqs)]_vars

\* C7: a file of exactly MAX_SIZE bytes is at the storage step
BoundaryFileAccepted ==
    \E q \in Running("upload", "store") : q.file.size = 10 * 1024 * 1024

\* C8: a row is created only when its original blob is in storage, and an
\* error of the storage write ends the upload request with an error response
\* and without a row.
BlobBeforeRow ==
    [][/\ \A id \in DOMAIN imagePairs' \ Rows :
            getPathFromUrl(imagePairs'[id].originalUrl) \in storage
       /\ \A q \in Running("upload", "store"), fault \in BOOLEAN :
            (UploadStore(q, fault) /\ uploadImage(storage, q.path, fault).error # "")
                => /\ lastResp' = Resp("upload", 500, Err("Upload failed"))
                   /\ imagePairs' = imagePairs
                   /\ reqs' = reqs (-) SetToBag({q})]_vars

\* C8: the storage write of an upload just failed: an error response, no row
StorageErrorNoRow ==
    /\ lastResp = Resp("upload", 500, Err("Upload failed"))
    /\ imagePairs = << >>
    /\ reqs = EmptyBag

\* C9: a user who asks for a row of another user gets not-found, the very
\* response the same request gets when the row does not exist.
NonOwnerSeesNotFound ==
    \A id \in Rows, c \in Users :
        imagePairs[id].userId # c
            => /\ GetResponse(imagePairs, c, id).code = 404
               /\ GetResponse(imagePairs, c, id)
                    = GetResponse(DeleteWhereId(imagePairs, id), c, id)
               /\ getImagePairById(imagePairs, id, c) = Null

\* C9: a GET was just answered not-found while the row exists
NotFoundForExistingRow ==
    /\ lastResp = Resp("get", 404, Err("Image pair not found"))
    /\ \A id \in Ids : id \in Rows

\* the user whose session the request carries
SessionUser(q) == IF "userId" \in DOMAIN q THEN q.userId ELSE Anon
\* C10: a row is changed or deleted only by a step of a request made with
\* the session of the row's owner, or of the convert request that the
\* owner's upload handler sent.
OnlyOwnerChangesRow ==
    [][\A id \in Rows :
          (Touched(id) /\ Acting # {})
              => \E q \in Acting :
                    \/ SessionUser(q) = imagePairs[id].userId
                    \/ q.kind = "convert" /\ q.trig]_vars

\* C11: deleteImagePair(id) called twice in succession returns success both
\* times and the table after the second call is the table after the first,
\* without the row; a call that meets no database error returns success
\* whether or not a row matched.
DeleteIdempotent ==
    /\ [](\A id \in StoreIds :
            LET first == deleteImagePair(imagePairs, id, FALSE)
                second == deleteImagePair(first.table, id, FALSE)
                firstMobile == deleteImagePairMobile(imagePairs, id, FALSE)
                secondMobile == deleteImagePairMobile(firstMobile.table, id, FALSE)
            IN  /\ first.result = "true" /\ second.result = "true"
                /\ second.table = first.table /\ id \notin DOMAIN first.table
                /\ firstMobile.result = "true" /\ secondMobile.result = "true"
                /\ secondMobile.table = firstMobile.table
                /\ id \notin DOMAIN firstMobile.table)
    /\ [][\A id \in StoreIds :
            (StoreDelete(id, FALSE) \/ StoreDeleteMobile(id, FALSE))
                => /\ lastResp'.body.result = "true"
                   /\ id \notin DOMAIN imagePairs'
                   /\ (id \notin Rows => imagePairs' = imagePairs)]_vars

\* C11: a delete of an id whose row was already absent has just returned true
DeletedTwice ==
    /\ lastResp.op = "deleteImagePair"
    /\ lastResp.body.result = "true" /\ ~lastResp.body.matched
    /\ lastResp.body.id \notin Rows

\* C12: when a DELETE request answers success, the bucket holds no blob of
\* the row: not its original, not its protected image, not a proof swap image.
DeleteRemovesBlobs ==
    [][\A q \in Ending :
          (q.kind = "delete" /\ lastResp' = Resp("delete", 200, [success |-> TRUE]))
              => /\ getPathFromUrl(q.originalUrl) \notin storage'
                 /\ q.protectedUrl # Null
                        => getPathFromUrl(q.protectedUrl) \notin storage'
                 /\ SwapPath(q.userId, q.id, "original") \notin storage'
                 /\ SwapPath(q.userId, q.id, "protected") \notin storage']_vars

\* the four proof fields of a row
ProofFields ==
    {"proofGeneratedAt", "proofOriginalSwapUrl", "proofProtectedSwapUrl",
     "proofAnalysis"}
\* those of them that are populated
ProofFieldsSet(row) == {f \in ProofFields : row[f] # Null}

\* C13: in every reachable state the four proof fields of a row are all
\* populated or all absent.
ProofFieldsAllOrNone ==
    \A id \in Rows :
        ProofFieldsSet(imagePairs[id]) \in {{}, ProofFields}

\* C13: a row whose proof was cached and whose later conversion run failed
ProofCachedThenFailed ==
    \E id \in Rows :
        /\ ProofFieldsSet(imagePairs[id]) = ProofFields
        /\ imagePairs[id].status = "failed"

\* C14: a proof request of the owner for a row whose four proof fields are
\* populated is answered with them and cached: true by its first step, which
\* starts no download, prove call or upload and writes nothing.
CacheHitDoesNothing ==
    [][\A id \in Rows :
          (ProofCached(imagePairs[id])
                /\ ProofBegin(imagePairs[id].userId, id, FALSE))
              => /\ lastResp' = Resp("proof", 200, CachedBody(imagePairs[id]))
                 /\ lastResp'.body.cached
                 /\ UNCHANGED <<imagePairs, storage, reqs, trigger>>]_vars

\* C14: a proof request has just been answered from the cache
CacheHitAnswered ==
    \E id \in Rows :
        /\ ProofCached(imagePairs[id])
        /\ lastResp = Resp("proof", 200, CachedBody(imagePairs[id]))

\* the response of a proof request whose swap images could not be stored
StorageFailedBody ==
    [cached |-> FALSE, originalSwapBase64 |-> "original_swap",
     protectedSwapBase64 |-> "protected_swap",
     analysis |-> <<"analysis">>, storageFailed |-> TRUE]
\* one of the two swap uploads of the request would return an error
SwapUploadFails(q, faultOriginal, faultProtected) ==
    \/ uploadImage(storage, SwapPath(q.userId, q.id, "original"),
                   faultOriginal).error # ""
    \/ uploadImage(storage, SwapPath(q.userId, q.id, "protected"),
                   faultProtected).error # ""

\* C15: when the prove call of a proof request has succeeded and the upload
\* of either swap image fails, the request is answered with both base64
\* images and the analysis, cached: false and storageFailed: true, and the
\* row is left as it was.
StorageFailureKeepsResult ==
    [][\A q \in Running("proof", "upload"), fo, fp \in BOOLEAN :
          (ProofUpload(q, fo, fp) /\ SwapUploadFails(q, fo, fp))
              => /\ lastResp' = Resp("proof", 200, StorageFailedBody)
                 /\ imagePairs' = imagePairs
                 /\ reqs' = reqs (-) SetToBag({q})]_vars

\* C15: a proof request has just been answered storageFailed, and the proof
\* fields of the row are unset
StorageFailedAnswered ==
    /\ lastResp = Resp("proof", 200, StorageFailedBody)
    /\ \E id \in Rows : ProofFieldsSet(imagePairs[id]) = {}

\* C16: a proof request (such as the one that follows a request whose swap
\* uploads failed) that meets a healthy storage service and a healthy
\* database gets through its upload step and persists all four proof fields.
RetryPersistsProof ==
    [][/\ \A q \in Running("proof", "upload") :
            ProofUpload(q, FALSE, FALSE)
                => With(q, [pc |-> "persist"]) \in BagToSet(reqs')
       /\ \A q \in Running("proof", "persist") :
            (ProofPersist(q, FALSE) /\ q.id \in Rows)
                => ProofCached(imagePairs'[q.id])]_vars

\* C17: when the prove call of a proof request fails (a non-2xx answer, a
\* timeout or transport exception, an undecodable body), the request ends
\* with a 500 and writes nothing: the bucket and the table are unchanged.
ProveFailureWritesNothing ==
    [][\A q \in Running("proof", "prove"), o \in BackendOutcomes \ {"ok"} :
          ProofProve(q, o)
              => /\ lastResp'.op = "proof" /\ lastResp'.code = 500
                 /\ UNCHANGED <<imagePairs, storage>>
                 /\ reqs' = reqs (-) SetToBag({q})]_vars

\* C17: a proof request has just ended on a non-2xx answer of the prove
\* backend, with no swap image in the bucket and no proof field set
ProveFailureAnswered ==
    /\ lastResp = Resp("proof", 500, Err("Proof generation failed"))
    /\ \A id \in Rows :
          /\ ProofFieldsSet(imagePairs[id]) = {}
          /\ \A w \in {"original", "protected"} :
                SwapPath(imagePairs[id].userId, id, w) \notin storage

\* C18: once the four proof fields of a row are populated, no proof request
\* makes a prove call for that row and the proof fields do not change.
ProofNeverRecomputed ==
    [][\A id \in Rows :
          ProofCached(imagePairs[id])
              => /\ \A q \in Acting :
                      ~(q.kind = "proof" /\ q.pc = "prove" /\ q.id = id)
                 /\ id \in DOMAIN imagePairs'
                      => \A f \in ProofFields :
                            imagePairs'[id][f] = imagePairs[id][f]]_vars


\* the components whose poller has been started
Pollers == {q \in BagToSet(reqs) : q.kind \in PollKinds}
MaxAttemptsOf(q) == IF q.kind = "ImageUpload" THEN maxAttempts ELSE maxAttempts30
\* the poller ended with the locally synthesized failed status and the
\* timeout message
TimedOut(q) ==
    /\ q.error = TimeoutMessage
    /\ q.imagePair # Null
    /\ q.imagePair[1].status = "failed"
    /\ q.pc = "stopped"

\* C19: the poller issues at most maxAttempts status requests and then
\* stops; it ends with the synthesized failed status and the timeout message
\* exactly when all maxAttempts responses were non-terminal; the timeout
\* message is never shown once a fetched status was completed or failed, and
\* a fetched failed shows the conversion-failed message.
PollerBoundedWithTimeout ==
    \A q \in Pollers :
        /\ q.attempts <= MaxAttemptsOf(q)
        /\ q.attempts = MaxAttemptsOf(q) => q.pc \in {"fetch", "stopped"}
        /\ TimedOut(q) <=> q.nonTerminal = MaxAttemptsOf(q)
        /\ q.terminal # Null => q.error # TimeoutMessage
        /\ q.terminal = <<"failed">> => q.error = ConversionFailedMessage

\* the same of the poller of web/components/image-upload.tsx alone
PollerBoundedWithTimeout60 ==
    \A q \in Pollers :
        q.kind = "ImageUpload" =>
            /\ q.attempts <= maxAttempts
            /\ q.attempts = maxAttempts => q.pc \in {"fetch", "stopped"}
            /\ TimedOut(q) <=> q.nonTerminal = maxAttempts
            /\ q.terminal # Null => q.error # TimeoutMessage
            /\ q.terminal = <<"failed">> => q.error = ConversionFailedMessage
\* the 30-attempt poller stops without a message after 30 non-terminal
\* responses
SilentStop30 ==
    \E q \in Pollers :
        /\ q.kind = "ImageUpload30"
        /\ q.nonTerminal = maxAttempts30
        /\ q.pc = "stopped"
        /\ q.error = ""
        /\ q.imagePair[1].status = "pending"


\* C20: when a status request of the poller of image-upload.tsx fails (fetch
\* rejects or the response is not ok), the poller stops at once: the generic
\* status-check error is set, the poller is inactive, no attempt is
\* scheduled, and no further status request is issued for the job.
PollFailureStops ==
    /\ [](\A q \in Pollers :
            q.kind = "ImageUpload" /\ q.failedFetch =>
                /\ q.pc = "stopped"
                /\ ~q.active
                /\ q.error = StatusCheckMessage)
    /\ [][\A q \in Pollers :
            q.kind = "ImageUpload" /\ q.failedFetch =>
                \A r \in BagToSet(reqs') :
                    r.attempts = q.attempts /\ r.pc = "stopped"]_vars
\* a status request after the first has just failed
PollFailureSeen ==
    \E q \in Pollers :
        /\ q.kind = "ImageUpload"
        /\ q.failedFetch
        /\ q.attempts > 1
        /\ lastResp.op = "get"
        /\ ~ResponseOk(lastResp)


UploadCompletesAndIsShown ==
    /\ [](lastResp.op = "upload" =>
            /\ lastResp.code = 200
            /\ lastResp.body.id \in DOMAIN imagePairs
            /\ lastResp.body = UploadBody(lastResp.body.id))
    /\ <>(\E id \in DOMAIN imagePairs :
            /\ imagePairs[id].status = "completed"
            /\ imagePairs[id].protectedUrl # Null)
    /\ [](\A q \in Pollers :
            /\ q.onUploadComplete <= 1
            /\ ~q.failedFetch
            /\ q.terminal # <<"failed">>
            /\ q.terminal = <<"completed">> =>
                /\ q.pc = "stopped"
                /\ q.error = ""
                /\ q.imagePair = <<imagePairs[q.id]>>
                /\ q.imagePair[1].status = "completed"
                /\ q.imagePair[1].protectedUrl # Null
                /\ q.onUploadComplete = 1
            /\ q.terminal = Null /\ q.pc = "stopped" =>
                TimedOut(q) /\ q.nonTerminal = maxAttempts)
    /\ <>(\E q \in Pollers : q.pc = "stopped")
\* the poller was answered completed after earlier non-terminal answers
CompletedShown ==
    \E q \in Pollers :
        /\ q.terminal = <<"completed">>
        /\ q.nonTerminal > 0
        /\ q.onUploadComplete = 1
        /\ q.imagePair[1].status = "completed"
        /\ trigger[q.id] = "resolved"


\* the operations of the proof routes
ProofOps == {"proof", "proofGet", "proofOriginal", "proofProtected"}
\* this step is taken by a proof operation: a proof request starts, goes on
\* or ends, or a proof operation is answered
ProofStep ==
    \/ \E q \in Acting : q.kind = "proof"
    \/ \E q \in BagToSet(reqs') :
            q.kind = "proof" /\ CopiesIn(q, reqs') > CopiesIn(q, reqs)
    \/ lastResp'.op \in ProofOps
\* C23: a step of a proof operation (POST and GET proof, proof/original,
\* proof/protected) removes no row and leaves every field of every row other
\* than the four proof fields unchanged, whatever its outcome; and no step of
\* any operation changes the originalUrl of an existing row.
ProofWritesOnlyProofFields ==
    [][\A id \in Rows :
          /\ ProofStep =>
                /\ id \in DOMAIN imagePairs'
                /\ \A f \in DOMAIN imagePairs[id] \ ProofFields :
                        imagePairs'[id][f] = imagePairs[id][f]
          /\ id \in DOMAIN imagePairs' =>
                imagePairs'[id].originalUrl = imagePairs[id].originalUrl]_vars
\* a proof request has just written the four proof fields of a completed row
ProofPersisted ==
    /\ lastResp.op = "proof"
    /\ lastResp.code = 200
    /\ ~lastResp.body.cached
    /\ "generatedAt" \in DOMAIN lastResp.body
    /\ \E id \in Rows :
          /\ ProofFieldsSet(imagePairs[id]) = ProofFields
          /\ imagePairs[id].status = "completed"


\* C24: for every storage path that does not contain the marker sequence,
\* getPathFromUrl of the public URL derived for the path is the path; for a
\* string that is no URL or holds no marker, getPathFromUrl is null.
UrlRoundTripIsIdentity ==
    /\ lastResp.op = "roundTrip" /\ ~ContainsMarker(lastResp.body.path)
            => lastResp.body.result = lastResp.body.path
    /\ lastResp.op = "getPathFromUrl" => lastResp.body.result = Null
\* the round trip of a path whose segments the URL parser leaves alone
UrlRoundTripIsIdentityPlain ==
    /\ (/\ lastResp.op = "roundTrip"
        /\ ~ContainsMarker(lastResp.body.path)
        /\ \A i \in 1..Len(lastResp.body.path) :
                PercentEncode(lastResp.body.path[i]) = lastResp.body.path[i])
            => lastResp.body.result = lastResp.body.path
    /\ lastResp.op = "getPathFromUrl" => lastResp.body.result = Null


\* C25: the convert endpoint invoked again for a completed row, with every
\* collaborator succeeding, runs the pipeline through: the run never takes
\* the failure branch, it is answered 200, and the row is then completed with
\* the protectedUrl of the rewritten protected blob.
ReconvertOverwrites ==
    /\ \A q \in BagToSet(reqs) : q.kind = "convert" /\ ~q.trig => q.pc # "fail"
    /\ lastResp.op = "convert" =>
            /\ lastResp.code = 200
            /\ imagePairs[lastResp.body.id].status = "completed"
            /\ imagePairs[lastResp.body.id].protectedUrl = lastResp.body.protectedUrl
\* the second run has ended with a 500 and left the row failed, its
\* protectedUrl still that of the first run
ReconvertFailed ==
    /\ lastResp = Resp("convert", 500, Err("Upload failed"))
    /\ \E id \in Rows :
          /\ imagePairs[id].status = "failed"
          /\ imagePairs[id].protectedUrl # Null
          /\ getPathFromUrl(imagePairs[id].protectedUrl) \in storage


\* the conversion runs in flight for the row
ConvertRuns(id) == {q \in BagToSet(reqs) : q.kind = "convert" /\ q.id = id}
\* C26: a convert request for a row for which a run is in flight is accepted
\* as a run of its own, and the status writes of a run are made whatever the
\* row holds: the first write of a run sets processing, and the failure write
\* sets failed, also on a row that another run has completed.
ConcurrentRunsNotGuarded ==
    [][\A id \in Rows :
          /\ (ConvertRuns(id) # {} /\ DoubleSubmit(id)) =>
                \E q \in BagToSet(reqs') :
                    /\ q.kind = "convert" /\ q.id = id /\ q.pc = "setProcessing"
                    /\ CopiesIn(q, reqs') = CopiesIn(q, reqs) + 1
          /\ \A q \in Acting :
                q.kind = "convert" /\ q.id = id =>
                    /\ q.pc = "setProcessing" => imagePairs'[id].status = "processing"
                    /\ q.pc = "fail" => imagePairs'[id].status = "failed"]_vars
\* a run that began before the row was completed has since set the completed
\* row back to processing
CompletedClobbered ==
    \E id \in Rows :
        /\ imagePairs[id].status = "processing"
        /\ imagePairs[id].protectedUrl # Null
        /\ getPathFromUrl(imagePairs[id].protectedUrl) \in storage
        /\ \E q \in ConvertRuns(id) : q.pc = "download" /\ ~q.trig


\* the proof modals showing the progressive view of a cache miss
Modals ==
    {q \in BagToSet(reqs) :
        q.kind = "ProofModal" /\ q.pc = "shown" /\ ~q.proofData[1].cached}
\* C27: on a cache miss the two swap requests are sent together, and each
\* card's ready flag is true once its own request has settled, fulfilled or
\* rejected, whatever the state of the other request.
CardsReadyWhenSettled ==
    \A q \in Modals :
        /\ q.original # "none" /\ q.protected # "none"
        /\ q.original # "inflight" <=> q.proofData[1].originalReady
        /\ q.protected # "inflight" <=> q.proofData[1].protectedReady
\* the same of the protected card alone, and of an original request that is
\* fulfilled
CardsReadyWhenSettledOrFulfilled ==
    \A q \in Modals :
        /\ q.original # "none" /\ q.protected # "none"
        /\ q.original = "fulfilled" <=> q.proofData[1].originalReady
        /\ q.protected # "inflight" <=> q.proofData[1].protectedReady
\* both requests have settled, the original one rejected, and the original
\* card is still loading
OriginalCardStuck ==
    \E q \in Modals :
        /\ q.original = "rejected"
        /\ q.protected # "inflight"
        /\ ~q.proofData[1].originalReady
        /\ q.proofData[1].protectedReady


\* C28: when a second upload is started in the component while the poller of
\* the first is running, the pollers do not interfere: a poller stops only
\* on its own terminal answer or its own exhausted attempts, and from the
\* start of the second poller on the row displayed is a row of the second
\* job.
PollersIndependent ==
    \A q \in BagToSet(reqs) :
        /\ q.pc = "stopped" =>
                q.terminal # Null \/ q.nonTerminal = maxAttempts
        /\ PollerOf(2) # {} =>
                /\ q.imagePair # Null
                /\ q.imagePair[1].originalUrl = JobRow(2).originalUrl
\* the first job's poller has ended on its terminal answer and the second
\* poller has stopped without any terminal answer of its own, the component
\* showing the first job's row
LaterPollerStopped ==
    /\ \E q \in PollerOf(1) : q.pc = "stopped" /\ q.terminal # Null
    /\ \E q \in PollerOf(2) :
            /\ q.pc = "stopped"
            /\ q.terminal = Null
            /\ q.nonTerminal < maxAttempts
            /\ q.imagePair[1].originalUrl = JobRow(1).originalUrl
            /\ imagePairs[2].status = "completed"


\* a mobile run that has created its row returns in this step
MobileReturns(q) ==
    /\ q \in BagToSet(reqs)
    /\ q.kind = "mobile"
    /\ q.id # NoId
    /\ reqs' = reqs (-) SetToBag({q})

\* the row of the run is completed with a protected URL, or failed
MobileRowSettled(table, id) ==
    id \in DOMAIN table =>
        \/ table[id].status = "completed" /\ table[id].protectedUrl # Null
        \/ table[id].status = "failed"

\* C29: whenever handleCloak has created a row for its run, the row is
\* completed with its protectedUrl set, or failed, when handleCloak returns,
\* and never pending or processing, whatever the cloak call and the upload
\* of the protected image answered.
MobileRunEndsSettled ==
    [][\A q \in BagToSet(reqs) :
            MobileReturns(q) => MobileRowSettled(imagePairs', q.id)]_vars

\* the same for the runs whose last updateImagePairStatus was applied by
\* the database
MobileRunEndsSettledIfWritten ==
    [][\A q \in BagToSet(reqs) :
            MobileReturns(q) /\ imagePairs' # imagePairs
                => MobileRowSettled(imagePairs', q.id)]_vars


\* the rows that were inserted and are no longer in the table
Deleted == (1..(nextId - 1)) \ DOMAIN imagePairs
\* nothing is in flight at the server and no request is on its way to it
Quiet ==
    /\ InFlight(reqs) = 0
    /\ \A id \in DOMAIN trigger : trigger[id] # "inflight"
\* the blobs of the rows of the table: the original, and the protected blob
\* at the path the convert route derives from it
Owned ==
    UNION {{getPathFromUrl(imagePairs[id].originalUrl),
            ReplaceOriginals(getPathFromUrl(imagePairs[id].originalUrl))} :
           id \in DOMAIN imagePairs}
\* C30: once the DELETE of a row has returned success and the conversion of
\* the row has finished, the row does not exist and storage holds no blob,
\* original or protected, of the deleted job.
DeletedJobLeavesNothing ==
    Deleted # {} /\ Quiet =>
        /\ \A id \in Deleted : id \notin DOMAIN imagePairs
        /\ \A path \in storage : path \in Owned
\* the row is gone, nothing runs, and a protected blob of the job is stored
ProtectedBlobLeft ==
    /\ Deleted # {} /\ Quiet
    /\ \E path \in storage \ Owned : path[1] = "protected"
\* the conversion ended before the DELETE, or failed for want of the
\* original: the job has left nothing
DeletedJobGone ==
    /\ Deleted # {} /\ Quiet
    /\ storage = {}
    /\ \E id \in DOMAIN trigger : trigger[id] = "resolved"

====
